---- MODULE Spec2Model ----
(***************************************************************************)
(* Model of the episode-selection workflow of misaka-danmuku-bot:          *)
(*   callback/import_media.py  handle_import_callback,                     *)
(*                             handle_get_episode_callback,                *)
(*                             handle_episode_range_input,                 *)
(*                             cancel_episode_input                        *)
(*   handlers/import_media.py  process_search_media                        *)
(*   handlers/general.py       cancel                                      *)
(*   utils/api.py              call_danmaku_api (its envelope)             *)
(*                                                                         *)
(* Python str values that the code slices, splits or parses are sequences  *)
(* of one-character strings; opaque tokens are TLA+ strings.  A Python     *)
(* dict is a function whose DOMAIN is the set of keys present.             *)
(***************************************************************************)
EXTENDS Integers, Sequences, FiniteSets, TLC

VARIABLES user_data, inp, out, searches

vars == <<user_data, inp, out, searches>>

(***************************************************************************)
(* Bounds of the model.                                                    *)
(***************************************************************************)
\* longest range-selection text enumerated by ParseSpec
MaxTextLen == 5
\* number of successful searches a user performs in Spec
MaxSearches == 2
\* most episodes a fetched result has in PageSpec
MaxEpisodes == 23

\* longest response text and exception message of an HTTP outcome
MaxBodyLen == 102

\* most decimal digits of a result index in CeilSpec
MaxIndexDigits == 20
MaxClockSteps == 4

(***************************************************************************)
(* Program constants.                                                      *)
(***************************************************************************)
EPISODES_PER_PAGE == 10
CALLBACK_DATA_MAX_LEN == 64

\* URL_INPUT, KEYWORD_INPUT, ANIME_SELECT, SOURCE_SELECT, EPISODE_INPUT = range(5)
URL_INPUT == "URL_INPUT"
KEYWORD_INPUT == "KEYWORD_INPUT"
EPISODE_INPUT == "EPISODE_INPUT"
IMPORT_AUTO_ID_INPUT == "IMPORT_AUTO_ID_INPUT"
IMPORT_AUTO_METHOD_SELECTION == "IMPORT_AUTO_METHOD_SELECTION"

END == "ConversationHandler.END"
INPUT_EPISODE_RANGE == "INPUT_EPISODE_RANGE"
SEARCH_RESULTS == "SEARCH_RESULTS"
\* a handler that returns without a value leaves the conversation state as it is
RetNone == "None"

(***************************************************************************)
(* Python dict helpers.                                                    *)
(***************************************************************************)
EmptyDict == [k \in {} |-> 0]

Has(d, k) == k \in DOMAIN d

Get(d, k, default) == IF k \in DOMAIN d THEN d[k] ELSE default

Put(d, k, v) == [x \in (DOMAIN d) \cup {k} |-> IF x = k THEN v ELSE d[x]]

Del(d, k) == [x \in (DOMAIN d) \ {k} |-> d[x]]

(***************************************************************************)
(* Python str helpers over sequences of characters.                        *)
(***************************************************************************)
Whitespace == {" "}

DigitChars == {"0", "1", "2", "3", "4", "5", "6", "7", "8", "9"}

DigitVal(c) ==
    CASE c = "0" -> 0 [] c = "1" -> 1 [] c = "2" -> 2 [] c = "3" -> 3
      [] c = "4" -> 4 [] c = "5" -> 5 [] c = "6" -> 6 [] c = "7" -> 7
      [] c = "8" -> 8 [] c = "9" -> 9

RECURSIVE LStrip(_)
LStrip(s) ==
    IF s # <<>> /\ Head(s) \in Whitespace THEN LStrip(Tail(s)) ELSE s

RECURSIVE RStrip(_)
RStrip(s) ==
    IF s # <<>> /\ s[Len(s)] \in Whitespace
    THEN RStrip(SubSeq(s, 1, Len(s) - 1))
    ELSE s

\* str.strip()
Strip(s) == RStrip(LStrip(s))

\* position of the first occurrence of character c in s, 0 when absent
RECURSIVE FindFrom(_, _, _)
FindFrom(s, c, i) ==
    IF i > Len(s) THEN 0
    ELSE IF s[i] = c THEN i
    ELSE FindFrom(s, c, i + 1)

Find(s, c) == FindFrom(s, c, 1)

\* str.split(c): always at least one piece, empty pieces kept
RECURSIVE Split(_, _)
Split(s, c) ==
    LET i == Find(s, c) IN
    IF i = 0 THEN <<s>>
    ELSE <<SubSeq(s, 1, i - 1)>> \o Split(SubSeq(s, i + 1, Len(s)), c)

\* str.split(c, 1): cut at the first occurrence only
SplitOnce(s, c) ==
    LET i == Find(s, c) IN
    IF i = 0 THEN <<s>>
    ELSE <<SubSeq(s, 1, i - 1), SubSeq(s, i + 1, Len(s))>>

RECURSIVE DigitsValue(_, _)
DigitsValue(s, acc) ==
    IF s = <<>> THEN acc
    ELSE DigitsValue(Tail(s), 10 * acc + DigitVal(Head(s)))

AllDigits(s) == s # <<>> /\ \A i \in 1..Len(s) : s[i] \in DigitChars

\* int(str): surrounding whitespace ignored, optional sign, then decimal
\* digits; anything else is a ValueError (ok = FALSE)
IntParse(s) ==
    LET t == Strip(s)
        signed == t # <<>> /\ Head(t) \in {"-", "+"}
        body == IF signed THEN Tail(t) ELSE t
    IN  IF AllDigits(body)
        THEN [ok |-> TRUE,
              val |-> IF signed /\ Head(t) = "-"
                      THEN 0 - DigitsValue(body, 0)
                      ELSE DigitsValue(body, 0)]
        ELSE [ok |-> FALSE, val |-> 0]

\* sorted(set of int): the members in ascending order
Sorted(S) ==
    IF S = {} THEN <<>>
    ELSE LET lo == CHOOSE x \in S : (x - 1) \notin S /\ \A y \in S : x <= y
             hi == CHOOSE x \in S : (x + 1) \notin S /\ \A y \in S : y <= x
         IN  SelectSeq([i \in 1..(hi - lo + 1) |-> lo + i - 1], LAMBDA x : x \in S)

Range(s) == {s[i] : i \in 1..Len(s)}

\* [f(x) for x in s]
MapSeq(s, F(_)) == [i \in 1..Len(s) |-> F(s[i])]

(***************************************************************************)
(* Remote data: search ids, results and episode lists the remote API can   *)
(* return.                                                                 *)
(***************************************************************************)
\* the search id the remote issues for a user's n-th successful search
SearchIdSeq == <<"s75367", "s2390", "s1">>

SearchIds == Range(SearchIdSeq)

\* result summaries of a successful search (two results, indices 0 and 1)
SearchItems == <<[title |-> "A"], [title |-> "B"]>>

ResultIndices == {0, 1}

EpisodeKeys == {"provider", "episodeId", "title", "episodeIndex"}

E1 == [provider |-> "bilibili", episodeId |-> "e1", title |-> "t1", episodeIndex |-> 1]
E2 == [provider |-> "bilibili", episodeId |-> "e2", title |-> "t2", episodeIndex |-> 2]
E4 == [provider |-> "bilibili", episodeId |-> "e4", title |-> "t4", episodeIndex |-> 4]
\* a second episode with episodeIndex 1
E1b == [provider |-> "iqiyi", episodeId |-> "e1b", title |-> "t1b", episodeIndex |-> 1]
\* no title key
ENoTitle == [provider |-> "bilibili", episodeId |-> "e3", episodeIndex |-> 3]
\* no episodeIndex key
ENoIndex == [provider |-> "bilibili", episodeId |-> "e6", title |-> "t6"]
\* all four keys, episodeId empty
EEmptyId == [provider |-> "bilibili", episodeId |-> "", title |-> "t5", episodeIndex |-> 5]

\* the "data" of a successful GET /episodes for a result: the remote's episode
\* lists.  The list of the first result of the first search changes between
\* two fetches.
RemoteEpisodes(search_id, result_index) ==
    LET raw == <<search_id, result_index>> IN
    CASE raw = <<"s75367", 0>> -> {<<E1, E2, E4>>, <<E1, ENoTitle, E1b, E2>>}
      [] raw = <<"s75367", 1>> -> {<<ENoTitle, ENoIndex>>, <<>>}
      [] raw = <<"s2390", 0>> -> {<<E2, E4>>}
      [] raw = <<"s2390", 1>> -> {<<E2, EEmptyId>>}
      [] raw = <<"s1", 0>> -> {<<E4>>}
      [] raw = <<"s1", 1>> -> {<<>>}

FetchLists ==
    UNION {RemoteEpisodes(sid, ri) : sid \in SearchIds, ri \in ResultIndices}

ErrorMsgs == {"HTTP 500"}

TaskIds == {"task-1"}

\* envelopes returned by call_danmaku_api
ApiOk(data) == [success |-> TRUE, data |-> data]

ApiFail(error) == [success |-> FALSE, error |-> error]

(***************************************************************************)
(* Step records: inp is the update a handler was called with (and the      *)
(* envelope the remote API returned to it), out is what the handler did.   *)
(***************************************************************************)
\* no remote call was made in the step
NoResp == [success |-> FALSE, error |-> "<no request>"]

Update(handler, user, text, payload, resp) ==
    [handler |-> handler, user |-> user, text |-> text, payload |-> payload,
     resp |-> resp]

\* what a handler returns to the action that runs it: the new user_data of the
\* caller, the conversation state returned, the messages sent, the remote
\* requests issued, the keyboard rendered, and (for the range handler) the
\* final values of its locals selected_indices and invalid_segments
Result(ud, ret, replies, requests, markup, selected, invalid) ==
    [ud |-> ud, ret |-> ret, replies |-> replies, requests |-> requests,
     markup |-> markup, selected |-> selected, invalid_segments |-> invalid]

(***************************************************************************)
(* handle_get_episode_callback                                             *)
(***************************************************************************)
DigitChar(d) ==
    CASE d = 0 -> "0" [] d = 1 -> "1" [] d = 2 -> "2" [] d = 3 -> "3"
      [] d = 4 -> "4" [] d = 5 -> "5" [] d = 6 -> "6" [] d = 7 -> "7"
      [] d = 8 -> "8" [] d = 9 -> "9"

\* str(n)
RECURSIVE NatToStr(_)
NatToStr(n) ==
    IF n < 10 THEN <<DigitChar(n)>>
    ELSE Append(NatToStr(n \div 10), DigitChar(n % 10))

IntToStr(n) == IF n < 0 THEN <<"-">> \o NatToStr(0 - n) ELSE NatToStr(n)

\* s[:n]
Take(s, n) == SubSeq(s, 1, IF n < Len(s) THEN n ELSE Len(s))

\* hashlib.md5(f"{search_id}_{result_index}".encode()).hexdigest()[:8]
\* (the values MD5 gives for the search ids of SearchIdSeq)
Md5Hex8(search_id, result_index) ==
    LET raw == <<search_id, result_index>> IN
    CASE raw = <<"s75367", 0>> -> <<"7", "b", "1", "f", "5", "5", "4", "5">>
      [] raw = <<"s75367", 1>> -> <<"e", "8", "8", "7", "f", "f", "b", "9">>
      [] raw = <<"s2390", 0>> -> <<"6", "7", "c", "0", "8", "b", "c", "8">>
      [] raw = <<"s2390", 1>> -> <<"7", "b", "1", "f", "5", "5", "4", "5">>
      [] raw = <<"s1", 0>> -> <<"b", "d", "e", "5", "5", "7", "f", "7">>
      [] raw = <<"s1", 1>> -> <<"2", "2", "3", "e", "f", "7", "c", "2">>

ShortIds == {Md5Hex8(sid, ri) : sid \in SearchIds, ri \in ResultIndices}

\* len() of the action tags
ActionLen(a) ==
    CASE a = "switch_episode_page" -> 19
      [] a = "start_input_range" -> 17
      [] a = "get_media_episode" -> 17
      [] a = "import_media" -> 12

\* len(json.dumps({"a": a, "d": d, "p": p}, ensure_ascii=False))
PageCallbackLen(a, d, p) == 25 + ActionLen(a) + Len(d) + Len(IntToStr(p))

\* len(json.dumps({"a": a, "d": d}, ensure_ascii=False))
InputCallbackLen(a, d) == 18 + ActionLen(a) + Len(d)

\* len(json.dumps({"action": a, "data_id": d}, ensure_ascii=False))
RetryCallbackLen(a, d) == 29 + ActionLen(a) + Len(d)

\* len(json.dumps({"action": a, "result_index": n}, ensure_ascii=False))
ImportCallbackLen(a, n) == 32 + ActionLen(a) + Len(IntToStr(n))

\* len(json.dumps({"action": a, "data_id": d, "current_page": p},
\*                ensure_ascii=False))
LegacyPageCallbackLen(a, d, p) == 47 + ActionLen(a) + Len(d) + Len(IntToStr(p))

\* len(callback_data) of a rendered control, by the fields it carries
CallbackLen(cb) ==
    CASE DOMAIN cb = {"a", "d", "p"} -> PageCallbackLen(cb.a, cb.d, cb.p)
      [] DOMAIN cb = {"a", "d"} -> InputCallbackLen(cb.a, cb.d)
      [] DOMAIN cb = {"action", "data_id"} -> RetryCallbackLen(cb.action, cb.data_id)
      [] DOMAIN cb = {"action", "result_index"} ->
             ImportCallbackLen(cb.action, cb.result_index)
      [] DOMAIN cb = {"action", "data_id", "current_page"} ->
             LegacyPageCallbackLen(cb.action, cb.data_id, cb.current_page)

Button(kind, callback_data) == [kind |-> kind, callback_data |-> callback_data]

\* mutant: the page controls are written with the long field names
PageCallbackLegacy(data_id, page) ==
    [action |-> "switch_episode_page", data_id |-> data_id, current_page |-> page]

\* prev_callback / next_callback, with the identifier cut to 17 characters
\* when the payload is over the ceiling
PageCallback(data_id, page) ==
    IF PageCallbackLen("switch_episode_page", data_id, page) > CALLBACK_DATA_MAX_LEN
    THEN [a |-> "switch_episode_page", d |-> Take(data_id, 17), p |-> page]
    ELSE [a |-> "switch_episode_page", d |-> data_id, p |-> page]

\* input_callback, with the identifier cut to 29 characters when over the ceiling
InputCallback(data_id) ==
    IF InputCallbackLen("start_input_range", data_id) > CALLBACK_DATA_MAX_LEN
    THEN [a |-> "start_input_range", d |-> Take(data_id, 29)]
    ELSE [a |-> "start_input_range", d |-> data_id]

ImportCallback(result_index) ==
    [action |-> "import_media", result_index |-> result_index]

\* retry_callback after a failed fetch
FetchRetryCallback(result_index) ==
    IF RetryCallbackLen("get_media_episode", IntToStr(result_index))
           > CALLBACK_DATA_MAX_LEN
    THEN [action |-> "get_media_episode", data_id |-> <<"r", "e", "t", "r", "y">>]
    ELSE [action |-> "get_media_episode", data_id |-> IntToStr(result_index)]

\* retry_callback after an empty filtered list (no length check)
EmptyRetryCallback(result_index) ==
    [action |-> "get_media_episode", data_id |-> IntToStr(result_index)]

\* retry_callback of the except branches
ErrorRetryCallback(data_id) ==
    [action |-> "get_media_episode", data_id |-> Take(data_id, 6)]

RetryMarkup(callback_data) == <<<<Button("retry", callback_data)>>>>

\* (n + EPISODES_PER_PAGE - 1) // EPISODES_PER_PAGE
TotalPages(n) == (n + EPISODES_PER_PAGE - 1) \div EPISODES_PER_PAGE

\* mutant: only the upper end is clamped
ClampPageUpperOnly(current_page, total_pages) ==
    IF current_page < total_pages THEN current_page ELSE total_pages

\* max(1, min(current_page, total_pages))
ClampPage(current_page, total_pages) ==
    LET m == IF current_page < total_pages THEN current_page ELSE total_pages
    IN  IF m < 1 THEN 1 ELSE m

\* full_episodes[start_idx:end_idx]
Slice(s, start_idx, end_idx) ==
    LET n == Len(s)
        \* a negative index counts from the end; both ends are cut to 0..n
        norm(i) == IF i < 0 THEN (IF i + n < 0 THEN 0 ELSE i + n)
                   ELSE (IF i > n THEN n ELSE i)
    IN  IF norm(start_idx) < norm(end_idx)
        THEN SubSeq(s, norm(start_idx) + 1, norm(end_idx))
        ELSE <<>>

\* the lines "{i}. 【第{episodeIndex}集】{title} ({provider})"
EpisodeDetails(current_page_episodes) ==
    [i \in 1..Len(current_page_episodes) |->
        [ordinal |-> i,
         episodeIndex |-> current_page_episodes[i].episodeIndex,
         title |-> current_page_episodes[i].title,
         provider |-> current_page_episodes[i].provider]]

\* mutant: the last page still offers a next page
PaginationButtonsOffByOne(data_id, current_page, total_pages) ==
    (IF current_page > 1
     THEN <<Button("prev", PageCallback(data_id, current_page - 1))>>
     ELSE <<>>)
    \o
    (IF current_page <= total_pages
     THEN <<Button("next", PageCallback(data_id, current_page + 1))>>
     ELSE <<>>)

\* the pagination row of a page
PaginationButtons(data_id, current_page, total_pages) ==
    (IF current_page > 1
     THEN <<Button("prev", PageCallback(data_id, current_page - 1))>>
     ELSE <<>>)
    \o
    (IF current_page < total_pages
     THEN <<Button("next", PageCallback(data_id, current_page + 1))>>
     ELSE <<>>)

\* mutant: import-all always names the first result
PageMarkupImportFirstResult(data_id, current_page, total_pages, result_index) ==
    (IF total_pages > 1
     THEN <<PaginationButtons(data_id, current_page, total_pages)>>
     ELSE <<>>)
    \o <<<<Button("input", InputCallback(data_id))>>>>
    \o <<<<Button("import_all", ImportCallback(0))>>>>

\* the keyboard of an episode page
PageMarkup(data_id, current_page, total_pages, result_index) ==
    (IF total_pages > 1
     THEN <<PaginationButtons(data_id, current_page, total_pages)>>
     ELSE <<>>)
    \o <<<<Button("input", InputCallback(data_id))>>>>
    \o <<<<Button("import_all", ImportCallback(result_index))>>>>

PageReply(total_episodes, current_page, total_pages, current_page_episodes) ==
    [msg |-> "episode_page", total |-> total_episodes, page |-> current_page,
     total_pages |-> total_pages,
     lines |-> EpisodeDetails(current_page_episodes)]

\* full_episodes = [ep for ep in data if all(key in ep for key in [...])]
FilterEpisodes(data) ==
    SelectSeq(data, LAMBDA ep : \A key \in EpisodeKeys : key \in DOMAIN ep)

\* the value stored in episode_data_map[short_id]
Batch(result_index, search_id, full_episodes) ==
    [result_index |-> result_index, search_id |-> search_id,
     total_episodes |-> Len(full_episodes), cached_episodes |-> full_episodes]

\* callback_data.get("a") or callback_data.get("action")
ActionOf(callback_data) ==
    IF Has(callback_data, "a") /\ callback_data.a # ""
    THEN callback_data.a
    ELSE Get(callback_data, "action", "<None>")

\* callback_data.get("d") or callback_data.get("data_id"); <<>> stands for
\* every falsy value
DataIdOf(callback_data) ==
    IF Has(callback_data, "d") /\ callback_data.d # <<>>
    THEN callback_data.d
    ELSE Get(callback_data, "data_id", <<>>)

\* int(callback_data.get("p", callback_data.get("current_page", 1)))
CurrentPageOf(callback_data) ==
    IF Has(callback_data, "p") THEN callback_data.p
    ELSE Get(callback_data, "current_page", 1)

ValidActions ==
    {"get_media_episode", "get_episodes", "switch_episode_page", "start_input_range"}

FetchRequest(search_id, result_index) ==
    [endpoint |-> "/episodes", searchId |-> search_id, result_index |-> result_index]

\* mutant: a short id that is already registered keeps its batch
CacheBatchIfAbsent(ud, short_id, batch) ==
    IF short_id \in DOMAIN ud.episode_data_map THEN ud
    ELSE [ud EXCEPT !.episode_data_map = Put(@, short_id, batch)]

\* episode_data_map[short_id] = {...}
CacheBatch(ud, short_id, batch) ==
    [ud EXCEPT !.episode_data_map = Put(@, short_id, batch)]

\* mutant: the empty list is registered and shown as a page with its controls
NoEpisodesResultAsPage(ud, request, search_id, result_index) ==
    Result(CacheBatch(ud, Md5Hex8(search_id, result_index),
                      Batch(result_index, search_id, <<>>)),
           END, <<[msg |-> "no_episodes"]>>, <<request>>,
           PageMarkup(Md5Hex8(search_id, result_index), 1, 0, result_index),
           {}, <<>>)

\* the branch "if not full_episodes": message and a retry keyboard
NoEpisodesResult(ud, request, search_id, result_index) ==
    Result(ud, END, <<[msg |-> "no_episodes"]>>, <<request>>,
           RetryMarkup(EmptyRetryCallback(result_index)), {}, <<>>)

\* section 3 of the handler: first fetch for the result in data_id.
\* ud already holds the episode_data_map key.
FirstFetch(ud, data_id, api_result, send_fails) ==
    LET idx == IntParse(data_id)
        result_index == idx.val
        search_id == Get(ud, "search_id", "")
        request == FetchRequest(search_id, result_index)
        full_episodes == FilterEpisodes(api_result.data)
        short_id == Md5Hex8(search_id, result_index)
        cached == CacheBatch(ud, short_id,
                             Batch(result_index, search_id, full_episodes))
        total_pages == TotalPages(Len(full_episodes))
        current_page_episodes == Slice(full_episodes, 0, EPISODES_PER_PAGE)
    IN  IF ~idx.ok
        THEN Result(ud, END, <<[msg |-> "alert_invalid_param"]>>, <<>>, <<>>, {}, <<>>)
        ELSE IF search_id = ""
        THEN Result(ud, END, <<[msg |-> "alert_no_search"]>>, <<>>, <<>>, {}, <<>>)
        ELSE IF ~api_result.success
        THEN Result(ud, END,
                    <<[msg |-> "fetch_failed", error |-> api_result.error]>>,
                    <<request>>,
                    RetryMarkup(FetchRetryCallback(result_index)), {}, <<>>)
        ELSE IF full_episodes = <<>>
        THEN NoEpisodesResult(ud, request, search_id, result_index)
        ELSE IF send_fails
        THEN \* reply_text raises after the batch was cached: except branch,
             \* where data_id is already the short id
             Result(cached, END, <<[msg |-> "alert_failed"]>>, <<request>>,
                    RetryMarkup(ErrorRetryCallback(short_id)), {}, <<>>)
        ELSE Result(cached, END,
                    <<PageReply(Len(full_episodes), 1, total_pages,
                                current_page_episodes)>>,
                    <<request>>,
                    PageMarkup(short_id, 1, total_pages, result_index), {}, <<>>)

\* mutant: starting range input keeps only the chosen batch
StartInputRangeOnlyChosen(ud, data_id) ==
    [Put(ud, "current_data_id", data_id) EXCEPT
        !.episode_data_map = [k \in {data_id} |-> ud.episode_data_map[k]]]

\* context.user_data["current_data_id"] = data_id
StartInputRange(ud, data_id) == Put(ud, "current_data_id", data_id)

\* sections 4 and 5 of the handler: start of range input, page switch
CachedBatchStep(ud, action, data_id, page, send_fails) ==
    LET current_data == ud.episode_data_map[data_id]
        full_episodes == current_data.cached_episodes
        total_episodes == current_data.total_episodes
        total_pages == TotalPages(total_episodes)
        current_page == ClampPage(page, total_pages)
        start_idx == (current_page - 1) * EPISODES_PER_PAGE
        current_page_episodes ==
            Slice(full_episodes, start_idx, start_idx + EPISODES_PER_PAGE)
    IN  IF full_episodes = <<>> \/ total_episodes = 0
        THEN Result(ud, END, <<[msg |-> "alert_stale"]>>, <<>>, <<>>, {}, <<>>)
        ELSE IF action = "start_input_range"
        THEN IF send_fails
             THEN Result(StartInputRange(ud, data_id), END,
                         <<[msg |-> "alert_failed"]>>, <<>>,
                         RetryMarkup(ErrorRetryCallback(data_id)), {}, <<>>)
             ELSE Result(StartInputRange(ud, data_id), INPUT_EPISODE_RANGE,
                         <<[msg |-> "prompt_range", total |-> total_episodes]>>,
                         <<>>, <<>>, {}, <<>>)
        ELSE IF send_fails
        THEN Result(ud, END, <<[msg |-> "alert_failed"]>>, <<>>,
                    RetryMarkup(ErrorRetryCallback(data_id)), {}, <<>>)
        ELSE Result(ud, END,
                    <<PageReply(total_episodes, current_page, total_pages,
                                current_page_episodes)>>,
                    <<>>,
                    PageMarkup(data_id, current_page, total_pages,
                               current_data.result_index),
                    {}, <<>>)

\* mutant: a stale identifier resets the batch map
StaleCallbackResultResetsMap(ud) ==
    Result(Put(ud, "episode_data_map", EmptyDict), END,
           <<[msg |-> "alert_stale"]>>, <<>>, <<>>, {}, <<>>)

\* the branch "data_id not in episode_data_map and action != get_media_episode"
StaleCallbackResult(ud) ==
    Result(ud, END, <<[msg |-> "alert_stale"]>>, <<>>, <<>>, {}, <<>>)

HandleGetEpisodeCallback(ud0, callback_data, api_result, send_fails) ==
    LET action == ActionOf(callback_data)
        data_id == DataIdOf(callback_data)
        current_page == CurrentPageOf(callback_data)
        \* if "episode_data_map" not in context.user_data: ... = {}
        ud == IF Has(ud0, "episode_data_map") THEN ud0
              ELSE Put(ud0, "episode_data_map", EmptyDict)
    IN  IF action \notin ValidActions \/ data_id = <<>>
        THEN Result(ud0, END, <<[msg |-> "alert_invalid"]>>, <<>>, <<>>, {}, <<>>)
        ELSE IF data_id \notin DOMAIN ud.episode_data_map
                /\ action # "get_media_episode"
        THEN StaleCallbackResult(ud)
        ELSE IF action = "get_media_episode"
        THEN FirstFetch(ud, data_id, api_result, send_fails)
        ELSE CachedBatchStep(ud, action, data_id, current_page, send_fails)

(***************************************************************************)
(* handle_episode_range_input                                              *)
(***************************************************************************)
\* mutant: the first episode with an episodeIndex is kept
EpisodeIndexMapFirstWins(full_episodes) ==
    LET n == Len(full_episodes)
        first(x) == CHOOSE i \in 1..n :
                       /\ full_episodes[i].episodeIndex = x
                       /\ \A j \in 1..(i - 1) : full_episodes[j].episodeIndex # x
    IN  [x \in {full_episodes[i].episodeIndex : i \in 1..n} |->
            full_episodes[first(x)]]

\* {ep["episodeIndex"]: ep for ep in full_episodes}: a later episode with the
\* same episodeIndex replaces an earlier one
EpisodeIndexMap(full_episodes) ==
    LET n == Len(full_episodes)
        last(x) == CHOOSE i \in 1..n :
                      /\ full_episodes[i].episodeIndex = x
                      /\ \A j \in (i + 1)..n : full_episodes[j].episodeIndex # x
    IN  [x \in {full_episodes[i].episodeIndex : i \in 1..n} |->
            full_episodes[last(x)]]

\* mutant: empty fragments are not dropped
RangeSegmentsKeepEmpty(user_input) == MapSeq(Split(user_input, ","), Strip)

\* [seg.strip() for seg in user_input.split(",") if seg.strip()]
RangeSegments(user_input) ==
    SelectSeq(MapSeq(Split(user_input, ","), Strip), LAMBDA seg : seg # <<>>)

\* mutant: start and end are not swapped
SegmentIndicesNoSwap(seg) ==
    IF Find(seg, "-") # 0
    THEN LET parts == SplitOnce(seg, "-")
             a == IntParse(Strip(parts[1]))
             b == IntParse(Strip(parts[2]))
         IN  IF a.ok /\ b.ok
             THEN [ok |-> TRUE, indices |-> a.val..b.val]
             ELSE [ok |-> FALSE, indices |-> {}]
    ELSE LET v == IntParse(seg)
         IN  IF v.ok
             THEN [ok |-> TRUE, indices |-> {v.val}]
             ELSE [ok |-> FALSE, indices |-> {}]

\* the try blocks of the loop body: the integers a fragment denotes, or
\* ok = FALSE when int() raises
SegmentIndices(seg) ==
    IF Find(seg, "-") # 0
    THEN LET parts == SplitOnce(seg, "-")
             a == IntParse(Strip(parts[1]))
             b == IntParse(Strip(parts[2]))
             start == IF a.val > b.val THEN b.val ELSE a.val
             end == IF a.val > b.val THEN a.val ELSE b.val
         IN  IF a.ok /\ b.ok
             THEN [ok |-> TRUE, indices |-> start..end]
             ELSE [ok |-> FALSE, indices |-> {}]
    ELSE LET v == IntParse(seg)
         IN  IF v.ok
             THEN [ok |-> TRUE, indices |-> {v.val}]
             ELSE [ok |-> FALSE, indices |-> {}]

\* invalid_segments.append(seg)
VerbatimEntry(seg) == [seg |-> seg, annotated |-> FALSE, rejected |-> <<>>]

\* invalid_segments.append(f"{seg}（无效集数：{sorted(invalid_in_segment)}）")
AnnotatedEntry(seg, invalid_in_segment) ==
    [seg |-> seg, annotated |-> TRUE, rejected |-> Sorted(invalid_in_segment)]

\* mutant: a fragment with any index out of range is dropped as a whole
ValidInSegmentAllOrNothing(segment_indices, valid_episode_indices) ==
    IF segment_indices \subseteq valid_episode_indices THEN segment_indices ELSE {}

ValidInSegment(segment_indices, valid_episode_indices) ==
    segment_indices \cap valid_episode_indices

InvalidInSegment(segment_indices, valid_episode_indices) ==
    segment_indices \ valid_episode_indices

\* mutant: selected_indices = valid_in_segment
UpdateSelectedAssign(selected, valid_in_segment) == valid_in_segment

\* selected_indices.update(valid_in_segment)
UpdateSelected(selected, valid_in_segment) == selected \cup valid_in_segment

\* mutant: break instead of continue
BreakLoop(segs) == <<>>

\* continue: the loop goes on with the fragments after the one that failed
ContinueWith(segs) == Tail(segs)

\* the for loop over range_segments
RECURSIVE ProcessSegments(_, _, _, _)
ProcessSegments(segs, valid, selected, invalid) ==
    IF segs = <<>>
    THEN [selected |-> selected, invalid_segments |-> invalid]
    ELSE LET seg == Head(segs)
             parsed == SegmentIndices(seg)
             valid_in_segment == ValidInSegment(parsed.indices, valid)
             invalid_in_segment == InvalidInSegment(parsed.indices, valid)
         IN  IF ~parsed.ok
             THEN ProcessSegments(ContinueWith(segs), valid, selected,
                                  Append(invalid, VerbatimEntry(seg)))
             ELSE ProcessSegments(Tail(segs), valid,
                                  UpdateSelected(selected, valid_in_segment),
                                  IF invalid_in_segment # {}
                                  THEN Append(invalid,
                                              AnnotatedEntry(seg, invalid_in_segment))
                                  ELSE invalid)

\* mutant: only the index is sent
DescriptorIndexOnly(ep) == [episodeIndex |-> ep.episodeIndex]

\* one entry of episodes_to_import
Descriptor(ep) ==
    [provider |-> ep.provider, episodeId |-> ep.episodeId, title |-> ep.title,
     episodeIndex |-> ep.episodeIndex]

EpisodesToImport(sorted_indices, episode_index_map) ==
    [i \in 1..Len(sorted_indices) |-> Descriptor(episode_index_map[sorted_indices[i]])]

\* mutant: the search id is read from the session, not from the batch
ImportEditedRequestSessionId(ud, current_data, episodes_to_import) ==
    [endpoint |-> "/import/edited",
     searchId |-> Get(ud, "search_id", ""),
     result_index |-> current_data.result_index,
     episodes |-> episodes_to_import]

\* json_data of POST /import/edited
ImportEditedRequest(ud, current_data, episodes_to_import) ==
    [endpoint |-> "/import/edited",
     searchId |-> current_data.search_id,
     result_index |-> current_data.result_index,
     episodes |-> episodes_to_import]

\* mutant: a failed import is sent a second time
ImportCallRetriesFailure(request, api_result) ==
    IF api_result.success THEN <<request>> ELSE <<request, request>>

\* the requests an import sends: call_danmaku_api is called once, whatever
\* it returns
ImportCall(request, api_result) == <<request>>

\* mutant: a failure is reported with the default text, not the remote one
ImportResultReplyDefaultError(api_result, sorted_indices) ==
    IF api_result.success
    THEN [msg |-> "import_submitted",
          taskId |-> Get(api_result.data, "taskId", "无"),
          count |-> Len(sorted_indices)]
    ELSE [msg |-> "import_failed", error |-> "<default>"]

ImportResultReply(api_result, sorted_indices) ==
    IF api_result.success
    THEN [msg |-> "import_submitted",
          taskId |-> Get(api_result.data, "taskId", "无"),
          count |-> Len(sorted_indices)]
    ELSE [msg |-> "import_failed", error |-> api_result.error]

\* mutant: with nothing selected the dialog ends and the current id is dropped
NoValidResultEnds(ud, parsed, total_episodes) ==
    Result(Del(ud, "current_data_id"), END,
           <<[msg |-> "no_valid",
              invalid |-> parsed.invalid_segments,
              total |-> total_episodes]>>,
           <<>>, <<>>, parsed.selected, parsed.invalid_segments)

\* the branch "if not selected_indices": re-prompt, same state
NoValidResult(ud, parsed, total_episodes) ==
    Result(ud, INPUT_EPISODE_RANGE,
           <<[msg |-> "no_valid",
              invalid |-> parsed.invalid_segments,
              total |-> total_episodes]>>,
           <<>>, <<>>, parsed.selected, parsed.invalid_segments)

HandleEpisodeRangeInput(ud, text, api_result) ==
    LET user_input == Strip(text)
        episode_data_map == Get(ud, "episode_data_map", EmptyDict)
        has_id == Has(ud, "current_data_id") /\ ud.current_data_id # <<>>
        resolved == has_id /\ ud.current_data_id \in DOMAIN episode_data_map
        current_data == episode_data_map[ud.current_data_id]
        full_episodes == current_data.cached_episodes
        total_episodes == current_data.total_episodes
        episode_index_map == EpisodeIndexMap(full_episodes)
        valid_episode_indices == DOMAIN episode_index_map
        range_segments == RangeSegments(user_input)
        parsed == ProcessSegments(range_segments, valid_episode_indices, {}, <<>>)
        sorted_indices == Sorted(parsed.selected)
        episodes_to_import == EpisodesToImport(sorted_indices, episode_index_map)
    IN  IF ~resolved \/ full_episodes = <<>>
        THEN Result(ud, END, <<[msg |-> "stale"]>>, <<>>, <<>>, {}, <<>>)
        ELSE IF range_segments = <<>>
        THEN Result(ud, INPUT_EPISODE_RANGE, <<[msg |-> "empty_input"]>>,
                    <<>>, <<>>, {}, <<>>)
        ELSE IF parsed.selected = {}
        THEN NoValidResult(ud, parsed, total_episodes)
        ELSE Result(ud, END,
                    <<[msg |-> "selected", indices |-> sorted_indices],
                      ImportResultReply(api_result, sorted_indices)>>,
                    ImportCall(ImportEditedRequest(ud, current_data,
                                                   episodes_to_import),
                               api_result),
                    <<>>, parsed.selected, parsed.invalid_segments)

\* the envelopes POST /import/edited and POST /import/direct can come back with
ImportResponses ==
    {ApiOk([taskId |-> t]) : t \in TaskIds} \cup {ApiFail(e) : e \in ErrorMsgs}

\* mutant: one store for the whole process
ApplyToAll(u, update, r) ==
    /\ user_data' = [v \in DOMAIN user_data |-> r.ud]
    /\ inp' = update
    /\ out' = [handler |-> update.handler, user |-> u, ret |-> r.ret,
               replies |-> r.replies, requests |-> r.requests,
               markup |-> r.markup, selected |-> r.selected,
               invalid_segments |-> r.invalid_segments]

\* a handler runs for user u: its result becomes the state
Apply(u, update, r) ==
    /\ user_data' = [user_data EXCEPT ![u] = r.ud]
    /\ inp' = update
    /\ out' = [handler |-> update.handler, user |-> u, ret |-> r.ret,
               replies |-> r.replies, requests |-> r.requests,
               markup |-> r.markup, selected |-> r.selected,
               invalid_segments |-> r.invalid_segments]

\* the user sends `text` while the range handler is listening
RangeInput(u, text) ==
    \E api_result \in ImportResponses \cup {NoResp} :
        \E r \in {HandleEpisodeRangeInput(user_data[u], text, api_result)} :
        /\ (api_result = NoResp) <=> (r.requests = <<>>)
        /\ Apply(u, Update("handle_episode_range_input", u, text, EmptyDict,
                           api_result), r)
        /\ UNCHANGED searches

(***************************************************************************)
(* handle_import_callback                                                  *)
(***************************************************************************)
ImportDirectRequest(search_id, result_index) ==
    [endpoint |-> "/import/direct", searchId |-> search_id,
     result_index |-> result_index]

HandleImportCallback(ud, callback_data, api_result) ==
    LET action == Get(callback_data, "action", "<None>")
        search_id == Get(ud, "search_id", "")
    IN  IF action # "import_media" \/ ~Has(callback_data, "result_index")
        THEN Result(ud, RetNone, <<[msg |-> "alert_invalid"]>>, <<>>, <<>>, {}, <<>>)
        ELSE IF search_id = ""
        THEN Result(ud, RetNone, <<[msg |-> "alert_no_search"]>>, <<>>, <<>>, {}, <<>>)
        ELSE Result(ud, RetNone,
                    <<IF api_result.success
                      THEN [msg |-> "import_submitted",
                            taskId |-> Get(api_result.data, "taskId", "无")]
                      ELSE [msg |-> "import_failed", error |-> api_result.error]>>,
                    ImportCall(ImportDirectRequest(search_id,
                                                   callback_data.result_index),
                               api_result),
                    <<>>, {}, <<>>)

(***************************************************************************)
(* process_search_media, cancel, cancel_episode_input                      *)
(***************************************************************************)
ProcessSearchMedia(ud, api_result) ==
    LET search_id == Get(api_result.data, "searchId", "")
        items == Get(api_result.data, "results", <<>>)
        request == [endpoint |-> "/search", keyword |-> "X"]
    IN  IF ~api_result.success
        THEN Result(ud, RetNone,
                    <<[msg |-> "search_failed", error |-> api_result.error]>>,
                    <<request>>, <<>>, {}, <<>>)
        ELSE IF search_id = ""
        THEN Result(ud, RetNone, <<[msg |-> "search_no_id"]>>, <<request>>,
                    <<>>, {}, <<>>)
        ELSE IF items = <<>>
        THEN Result(ud, RetNone, <<[msg |-> "search_no_results"]>>, <<request>>,
                    <<>>, {}, <<>>)
        ELSE Result(Put(Put(ud, "search_id", search_id), "search_results", items),
                    SEARCH_RESULTS, <<[msg |-> "search_results"]>>, <<request>>,
                    <<>>, {}, <<>>)

\* context.user_data.clear()
Cancel(ud) ==
    Result(EmptyDict, END, <<[msg |-> "cancelled"]>>, <<>>, <<>>, {}, <<>>)

\* deletes the keys current_result_index and total_episodes when present
CancelEpisodeInput(ud) ==
    Result([k \in (DOMAIN ud) \ {"current_result_index", "total_episodes"} |-> ud[k]],
           END, <<[msg |-> "input_cancelled"]>>, <<>>, <<>>, {}, <<>>)

(***************************************************************************)
(* Inputs of the steps.                                                    *)
(***************************************************************************)
\* the cached batches of a session
BatchMap(ud) == Get(ud, "episode_data_map", EmptyDict)

Users == {"u1"}

\* the envelopes GET /episodes can come back with for the request the handler
\* would make
FetchResponses(ud, callback_data) ==
    LET idx == IntParse(Get(callback_data, "data_id", <<>>))
        search_id == Get(ud, "search_id", "")
    IN  IF idx.ok /\ search_id \in SearchIds /\ idx.val \in ResultIndices
        THEN {ApiOk(l) : l \in RemoteEpisodes(search_id, idx.val)}
             \cup {ApiFail(e) : e \in ErrorMsgs}
        ELSE {ApiFail(e) : e \in ErrorMsgs}

\* what GET /search can come back with when the remote issues search id sid
SearchResponses(sid) ==
    { ApiOk([searchId |-> sid, results |-> SearchItems]),
      ApiOk([searchId |-> sid, results |-> <<>>]),
      ApiOk([results |-> SearchItems]) }
    \cup {ApiFail(e) : e \in ErrorMsgs}

RetrySentinel == <<"r", "e", "t", "r", "y">>

Pages == {1, 2}

\* callback payloads delivered to handle_get_episode_callback
EpisodePayloads ==
    {[action |-> "get_media_episode", data_id |-> IntToStr(ri)] : ri \in ResultIndices}
    \cup {[action |-> "get_media_episode", data_id |-> RetrySentinel]}
    \cup {ErrorRetryCallback(id) : id \in ShortIds}
    \cup {[a |-> "switch_episode_page", d |-> id, p |-> pg] :
             id \in ShortIds, pg \in Pages}
    \cup {[a |-> "start_input_range", d |-> id] : id \in ShortIds}
    \cup {EmptyDict}

\* callback payloads delivered to handle_import_callback
ImportPayloads ==
    {ImportCallback(ri) : ri \in ResultIndices} \cup {EmptyDict}

\* range-selection texts sent in Spec (ParseSpec enumerates all short texts)
RangeTexts ==
    { <<"1">>,
      <<"1", ",", "2">>,
      <<"2", "-", "1">>,
      <<"1", "-", "4">>,
      <<"a">>,
      <<"1", ",", "a">>,
      <<" ">>,
      <<",">>,
      <<"2", "2">>,
      <<"2", " ", "-", " ", "4", ",", " ", "1">> }

TextChars == {"1", "2", "3", "-", ",", " ", "a"}

Texts == UNION {[1..n -> TextChars] : n \in 1..MaxTextLen}

(***************************************************************************)
(* The actions: one per handler.                                           *)
(***************************************************************************)
NoOut ==
    [handler |-> "none", user |-> "none", ret |-> RetNone, replies |-> <<>>,
     requests |-> <<>>, markup |-> <<>>, selected |-> {},
     invalid_segments |-> <<>>]

Search(u) ==
    /\ searches < MaxSearches
    /\ \E api_result \in SearchResponses(SearchIdSeq[searches + 1]) :
        \E r \in {ProcessSearchMedia(user_data[u], api_result)} :
        /\ Apply(u, Update("process_search_media", u, <<>>, EmptyDict, api_result), r)
        /\ searches' = IF r.ret = SEARCH_RESULTS THEN searches + 1 ELSE searches

TapEpisode(u) ==
    \E callback_data \in EpisodePayloads, send_fails \in BOOLEAN :
    \E api_result \in FetchResponses(user_data[u], callback_data) \cup {NoResp} :
        \E r \in {HandleGetEpisodeCallback(user_data[u], callback_data,
                                          api_result, send_fails)} :
        /\ (api_result = NoResp) <=> (r.requests = <<>>)
        \* a send can only fail where the handler sends
        /\ send_fails => r.replies = <<[msg |-> "alert_failed"]>>
        /\ Apply(u, Update("handle_get_episode_callback", u, <<>>, callback_data,
                           api_result), r)
        /\ UNCHANGED searches

TapImport(u) ==
    \E callback_data \in ImportPayloads,
       api_result \in ImportResponses \cup {NoResp} :
        \E r \in {HandleImportCallback(user_data[u], callback_data, api_result)} :
        /\ (api_result = NoResp) <=> (r.requests = <<>>)
        /\ Apply(u, Update("handle_import_callback", u, <<>>, callback_data,
                           api_result), r)
        /\ UNCHANGED searches

SendRange(u) == \E text \in RangeTexts : RangeInput(u, text)

SendCancel(u) ==
    /\ Apply(u, Update("cancel", u, <<>>, EmptyDict, NoResp), Cancel(user_data[u]))
    /\ UNCHANGED searches

SendCancelInput(u) ==
    /\ Apply(u, Update("cancel_episode_input", u, <<>>, EmptyDict, NoResp),
             CancelEpisodeInput(user_data[u]))
    /\ UNCHANGED searches

Init ==
    /\ user_data = [u \in Users |-> EmptyDict]
    /\ inp = Update("none", "none", <<>>, EmptyDict, NoResp)
    /\ out = NoOut
    /\ searches = 0

Next ==
    \E u \in Users :
        \/ Search(u)
        \/ TapEpisode(u)
        \/ TapImport(u)
        \/ SendRange(u)
        \/ SendCancel(u)
        \/ SendCancelInput(u)

Spec == Init /\ [][Next]_vars

(***************************************************************************)
(* ParseSpec: the range handler applied once to every short text, for a    *)
(* user who has fetched a result and tapped "input range".                 *)
(***************************************************************************)
\* user_data after a search, a first fetch that cached full_episodes for
\* result 0, and a tap on "input range"
SessionWithBatch(full_episodes) ==
    LET search_id == SearchIdSeq[1]
        short_id == Md5Hex8(search_id, 0)
    IN  [search_id |-> search_id,
         search_results |-> SearchItems,
         episode_data_map |->
             Put(EmptyDict, short_id, Batch(0, search_id, full_episodes)),
         current_data_id |-> short_id]

\* the lists a first fetch of that result can cache
CachedLists ==
    {FilterEpisodes(l) : l \in RemoteEpisodes(SearchIdSeq[1], 0)} \ {<<>>}

ParseInit ==
    /\ \E full_episodes \in CachedLists :
           user_data = [u \in Users |-> SessionWithBatch(full_episodes)]
    /\ \E text \in Texts : inp = Update("pending", "u1", text, EmptyDict, NoResp)
    /\ out = NoOut
    /\ searches = 1

ParseNext ==
    \E u \in Users :
        /\ inp.handler = "pending"
        /\ inp.user = u
        /\ RangeInput(u, inp.text)

ParseSpec == ParseInit /\ [][ParseNext]_vars

(***************************************************************************)
(* PageSpec: after a successful search the user drills into one result,    *)
(* whose fetch returns 0..MaxEpisodes complete episodes, and then taps     *)
(* page and input controls with any page number.                           *)
(***************************************************************************)
PageEpisode(i) ==
    [provider |-> "bilibili", episodeId |-> <<"e">> \o NatToStr(i),
     title |-> <<"t">> \o NatToStr(i), episodeIndex |-> i]

PageEpisodes(n) == [i \in 1..n |-> PageEpisode(i)]

\* page numbers a payload can carry: below, inside and above every page range
PageNumbers == (0 - 1)..(TotalPages(MaxEpisodes) + 2)

\* the short ids of the results of the first search
PageIds == {Md5Hex8(SearchIdSeq[1], ri) : ri \in ResultIndices}

\* payloads of cached-batch taps, in the short and the legacy field names
PagePayloads ==
    {[a |-> "switch_episode_page", d |-> id, p |-> pg] :
        id \in PageIds, pg \in PageNumbers}
    \cup {[action |-> "switch_episode_page", data_id |-> id, current_page |-> pg] :
             id \in PageIds, pg \in PageNumbers}
    \cup {[a |-> "get_episodes", d |-> id] : id \in PageIds}
    \cup {[a |-> "start_input_range", d |-> id] : id \in PageIds}

\* the envelopes GET /episodes comes back with in PageSpec
PageFetchResponses ==
    {ApiOk(PageEpisodes(n)) : n \in 0..MaxEpisodes}
    \cup {ApiFail(e) : e \in ErrorMsgs}

\* the first fetch of the conversation
PageFetch(u) ==
    /\ BatchMap(user_data[u]) = EmptyDict
    /\ \E ri \in ResultIndices, api_result \in PageFetchResponses,
          send_fails \in BOOLEAN :
        \E r \in {HandleGetEpisodeCallback(
                      user_data[u],
                      [action |-> "get_media_episode", data_id |-> IntToStr(ri)],
                      api_result, send_fails)} :
        /\ send_fails => r.replies = <<[msg |-> "alert_failed"]>>
        /\ Apply(u, Update("handle_get_episode_callback", u, <<>>,
                           [action |-> "get_media_episode",
                            data_id |-> IntToStr(ri)],
                           api_result), r)
        /\ UNCHANGED searches

\* a tap on a control of a cached batch
PageTap(u) ==
    \E callback_data \in PagePayloads, send_fails \in BOOLEAN :
        \E r \in {HandleGetEpisodeCallback(user_data[u], callback_data, NoResp,
                                          send_fails)} :
        /\ send_fails => r.replies = <<[msg |-> "alert_failed"]>>
        /\ Apply(u, Update("handle_get_episode_callback", u, <<>>, callback_data,
                           NoResp), r)
        /\ UNCHANGED searches

PageInit ==
    /\ user_data = [u \in Users |->
                       [search_id |-> SearchIdSeq[1], search_results |-> SearchItems]]
    /\ inp = Update("none", "none", <<>>, EmptyDict, NoResp)
    /\ out = NoOut
    /\ searches = 1

PageNext == \E u \in Users : PageFetch(u) \/ PageTap(u)

PageSpec == PageInit /\ [][PageNext]_vars

(***************************************************************************)
(* PayloadSpec: the two callback handlers from the start, fed with what    *)
(* json.loads(query.data) gives for any payload string: a JSONDecodeError  *)
(* or a Python value, which need not be a dict and whose fields need not   *)
(* have the expected types.                                                *)
(***************************************************************************)
\* a Python value: its type and, in the field named after the type, its
\* content.  "str" holds a sequence of characters, "name" a str the code
\* only compares, "dict" a function from keys to values, and "NoneType" and
\* "JSONDecodeError" (json.loads raised) hold nothing.
Py(type, content) == ("t" :> type) @@ (type :> content)

\* bool(x)
Truthy(x) ==
    CASE x.t = "NoneType" -> FALSE
      [] x.t = "int" -> x[x.t] # 0
      [] x.t = "str" -> x[x.t] # <<>>
      [] x.t = "name" -> x[x.t] # ""
      [] OTHER -> TRUE

\* d.get(k)
PyGet(d, k) == IF k \in DOMAIN d THEN d[k] ELSE Py("NoneType", 0)

\* int(x): ok = FALSE stands for the ValueError or TypeError it raises
PyIntOf(x) ==
    CASE x.t = "int" -> [ok |-> TRUE, val |-> x[x.t]]
      [] x.t = "str" -> IntParse(x[x.t])
      [] OTHER -> [ok |-> FALSE, val |-> 0]

\* handle_get_episode_callback from its first line; data_id is a str or an int
GetEpisodeCallbackRaw(ud, loaded, api_result, send_fails) ==
    LET d == loaded[loaded.t]
        Or(x, y) == IF Truthy(x) THEN x ELSE y
        action == Or(PyGet(d, "a"), PyGet(d, "action"))
        data_id == Or(PyGet(d, "d"), PyGet(d, "data_id"))
        current_page ==
            PyIntOf(IF "p" \in DOMAIN d THEN d["p"]
                    ELSE IF "current_page" \in DOMAIN d THEN d["current_page"]
                    ELSE Py("int", 1))
        \* int(data_id) of an int is that int
        id_text == IF data_id.t = "int" THEN IntToStr(data_id[data_id.t])
                   ELSE data_id[data_id.t]
    IN  IF loaded.t = "JSONDecodeError"
        THEN Result(ud, END, <<[msg |-> "alert_expired"]>>, <<>>, <<>>, {}, <<>>)
        ELSE IF loaded.t # "dict"
        THEN \* .get raises AttributeError, caught by "except Exception"
             Result(ud, END, <<[msg |-> "alert_failed"]>>, <<>>, <<>>, {}, <<>>)
        ELSE IF ~current_page.ok
        THEN Result(ud, END, <<[msg |-> "alert_expired"]>>, <<>>, <<>>, {}, <<>>)
        ELSE IF \/ action \notin {Py("name", valid) : valid \in ValidActions}
                \/ ~Truthy(data_id)
        THEN Result(ud, END, <<[msg |-> "alert_invalid"]>>, <<>>, <<>>, {}, <<>>)
        ELSE HandleGetEpisodeCallback(
                 ud, [a |-> action[action.t], d |-> id_text, p |-> current_page.val],
                 api_result, send_fails)

\* handle_import_callback from its first line; a return value
\* "raise AttributeError" says that the handler raised it
ImportCallbackRaw(ud, loaded, api_result) ==
    LET d == loaded[loaded.t]
        action == PyGet(d, "action")
        result_index == PyGet(d, "result_index")
    IN  IF loaded.t = "JSONDecodeError"
        THEN Result(ud, RetNone, <<[msg |-> "alert_parse_failed"]>>, <<>>, <<>>,
                    {}, <<>>)
        ELSE IF loaded.t # "dict"
        THEN \* .get raises AttributeError, which nothing catches
             Result(ud, "raise AttributeError", <<>>, <<>>, <<>>, {}, <<>>)
        ELSE IF action # Py("name", "import_media") \/ result_index.t = "NoneType"
        THEN Result(ud, RetNone, <<[msg |-> "alert_invalid"]>>, <<>>, <<>>, {}, <<>>)
        ELSE HandleImportCallback(
                 ud, [action |-> action[action.t], result_index |-> result_index],
                 api_result)

\* what json.loads gives for the payloads sent to handle_get_episode_callback
RawEpisodePayloads ==
    LET actions == {Py("name", "get_media_episode"), Py("name", "switch_episode_page"),
                    Py("name", "start_input_range"), Py("name", "bogus"),
                    Py("int", 1)}
        ids == {Py("str", <<"0">>), Py("str", Md5Hex8(SearchIdSeq[1], 0)),
                Py("str", <<>>), Py("int", 1)}
        pages == {Py("int", 2), Py("str", <<"2">>), Py("str", <<"x">>),
                  Py("NoneType", 0)}
    IN  {Py("JSONDecodeError", 0), Py("NoneType", 0), Py("int", 1),
         Py("str", <<"x">>), Py("dict", EmptyDict)}
        \cup {Py("dict", [a |-> x]) : x \in actions}
        \cup {Py("dict", [d |-> y]) : y \in ids}
        \cup {Py("dict", [a |-> x, d |-> y]) : x \in actions, y \in ids}
        \cup {Py("dict", [a |-> x, d |-> y, p |-> z]) :
                 x \in actions, y \in ids, z \in pages}
        \cup {Py("dict", [action |-> Py("name", "switch_episode_page"),
                          data_id |-> y, current_page |-> z]) :
                 y \in ids, z \in pages}

\* what json.loads gives for the payloads sent to handle_import_callback
RawImportPayloads ==
    LET actions == {Py("name", "import_media"), Py("name", "bogus"), Py("int", 1)}
    IN  {Py("JSONDecodeError", 0), Py("NoneType", 0), Py("int", 1),
         Py("str", <<"x">>), Py("dict", EmptyDict)}
        \cup {Py("dict", [action |-> x]) : x \in actions}
        \cup {Py("dict", [result_index |-> y]) :
                 y \in {Py("int", 0), Py("NoneType", 0)}}
        \cup {Py("dict", [action |-> x, result_index |-> y]) :
                 x \in actions,
                 y \in {Py("int", 0), Py("int", 1), Py("str", <<"0">>),
                        Py("NoneType", 0)}}

\* the pending payload is delivered to handle_get_episode_callback
RawTapEpisode(u) ==
    /\ inp.handler = "pending"
    /\ inp.user = u
    /\ inp.payload \in RawEpisodePayloads
    /\ \E send_fails \in BOOLEAN :
       \E api_result \in {ApiOk(l) : l \in FetchLists}
                          \cup {ApiFail(e) : e \in ErrorMsgs} \cup {NoResp} :
        \E r \in {GetEpisodeCallbackRaw(user_data[u], inp.payload, api_result,
                                       send_fails)} :
        /\ (api_result = NoResp) <=> (r.requests = <<>>)
        /\ send_fails => r.replies = <<[msg |-> "alert_failed"]>>
        /\ Apply(u, Update("handle_get_episode_callback", u, <<>>, inp.payload,
                           api_result), r)
        /\ UNCHANGED searches

\* the pending payload is delivered to handle_import_callback
RawTapImport(u) ==
    /\ inp.handler = "pending"
    /\ inp.user = u
    /\ inp.payload \in RawImportPayloads
    /\ \E api_result \in ImportResponses \cup {NoResp} :
        \E r \in {ImportCallbackRaw(user_data[u], inp.payload, api_result)} :
        /\ (api_result = NoResp) <=> (r.requests = <<>>)
        /\ Apply(u, Update("handle_import_callback", u, <<>>, inp.payload,
                           api_result), r)
        /\ UNCHANGED searches

\* a payload is pending in a fresh session, after a search, or with a batch
PayloadInit ==
    /\ user_data \in
          [Users -> {EmptyDict,
                     [search_id |-> SearchIdSeq[1], search_results |-> SearchItems]}
                    \cup {SessionWithBatch(l) : l \in CachedLists}]
    /\ \E loaded \in RawEpisodePayloads \cup RawImportPayloads :
           inp = Update("pending", "u1", <<>>, loaded, NoResp)
    /\ out = NoOut
    /\ searches = 1

PayloadNext == \E u \in Users : RawTapEpisode(u) \/ RawTapImport(u)

PayloadSpec == PayloadInit /\ [][PayloadNext]_vars

(***************************************************************************)
(* ApiSpec: call_danmaku_api applied once to every outcome of the HTTP     *)
(* request.  inp holds the outcome, out what the function returned or      *)
(* raised.                                                                 *)
(***************************************************************************)
\* the classes an exception of class exc is an instance of
ExcBases(exc) ==
    CASE exc = "ConnectTimeout" ->
             {"ConnectTimeout", "ConnectionError", "Timeout", "RequestException",
              "Exception"}
      [] exc = "ReadTimeout" -> {"ReadTimeout", "Timeout", "RequestException", "Exception"}
      [] exc = "SSLError" ->
             {"SSLError", "ConnectionError", "RequestException", "Exception"}
      [] exc = "ConnectionError" -> {"ConnectionError", "RequestException", "Exception"}
      [] exc = "HTTPError" -> {"HTTPError", "RequestException", "Exception"}
      [] exc = "JSONDecodeError" ->
             {"JSONDecodeError", "RequestException", "ValueError", "Exception"}
      [] exc = "MissingSchema" ->
             {"MissingSchema", "RequestException", "ValueError", "Exception"}
      [] OTHER -> {exc, "Exception"}

\* mutant: without the last clause
ExceptClausesNoCatchAll == <<"Timeout", "ConnectionError", "HTTPError">>

\* the except clauses of call_danmaku_api, in their order
ExceptClauses == <<"Timeout", "ConnectionError", "HTTPError", "Exception">>

\* outcomes of requests.request: a response with its status, its text and,
\* when the text is JSON, the decoded body; or an exception with its message
HttpOutcomes ==
    LET texts == {[i \in 1..n |-> "x"] : n \in 0..MaxBodyLen}
    IN  {[kind |-> "response", status |-> st, is_json |-> TRUE, body |-> b,
          text |-> <<"{", "}">>] :
            st \in {200, 201, 404, 500}, b \in {[taskId |-> "task-1"], EmptyDict}}
        \cup {[kind |-> "response", status |-> st, is_json |-> FALSE, text |-> t] :
                 st \in {200, 204, 304, 400, 401, 404, 500, 502, 599}, t \in texts}
        \cup {[kind |-> "exception", exc |-> e, msg |-> t] :
                 e \in {"ConnectTimeout", "ReadTimeout", "SSLError",
                        "ConnectionError", "MissingSchema", "TooManyRedirects",
                        "UnicodeError"},
                 t \in texts}

\* [returns |-> envelope], or [raises |-> class] when no clause catches
CallDanmakuApi(outcome) ==
    LET \* requests.request, raise_for_status, response.json()
        body == IF outcome.kind = "exception"
                THEN [raises |-> outcome.exc, msg |-> outcome.msg]
                ELSE IF 400 <= outcome.status /\ outcome.status < 600
                THEN [raises |-> "HTTPError", msg |-> outcome.text]
                ELSE IF ~outcome.is_json
                THEN [raises |-> "JSONDecodeError", msg |-> outcome.text]
                ELSE [returns |-> ApiOk(outcome.body)]
        catching == {i \in 1..Len(ExceptClauses) :
                        ExceptClauses[i] \in ExcBases(body.raises)}
        clause == ExceptClauses[CHOOSE i \in catching : \A j \in catching : i <= j]
    IN  IF "returns" \in DOMAIN body THEN body
        ELSE IF catching = {} THEN [raises |-> body.raises]
        ELSE CASE clause = "Timeout" ->
                      [returns |-> ApiFail([msg |-> "timeout"])]
               [] clause = "ConnectionError" ->
                      [returns |-> ApiFail([msg |-> "connection_failed"])]
               [] clause = "HTTPError" ->
                      [returns |-> ApiFail([msg |-> "http_error",
                                            status |-> outcome.status,
                                            text |-> Slice(outcome.text, 0, 100)])]
               [] OTHER ->
                      [returns |-> ApiFail([msg |-> "unknown_error",
                                            text |-> Slice(body.msg, 0, 50)])]

ApiCall ==
    /\ inp.handler = "pending"
    /\ inp' = [inp EXCEPT !.handler = "call_danmaku_api"]
    /\ out' = [handler |-> "call_danmaku_api", user |-> "none",
               result |-> CallDanmakuApi(inp.outcome)]
    /\ UNCHANGED <<user_data, searches>>

ApiInit ==
    /\ user_data = [u \in Users |-> EmptyDict]
    /\ \E outcome \in HttpOutcomes : inp = [handler |-> "pending", outcome |-> outcome]
    /\ out = NoOut
    /\ searches = 0

ApiSpec == ApiInit /\ [][ApiCall]_vars

(***************************************************************************)
(* IsoSpec: the handlers of Spec run for two users, each with its own      *)
(* context.user_data, on a selection of the inputs of Spec.                *)
(***************************************************************************)
IsoUsers == {"u1", "u2"}

\* the updates delivered in IsoSpec
IsoInputs ==
    /\ inp.payload \in
          {EmptyDict, ImportCallback(0)}
          \cup {[action |-> "get_media_episode", data_id |-> IntToStr(ri)] :
                   ri \in ResultIndices}
          \cup {[a |-> "switch_episode_page", d |-> id, p |-> 1] : id \in ShortIds}
          \cup {[a |-> "start_input_range", d |-> id] : id \in ShortIds}
    /\ inp.text \in {<<>>, <<"1">>, <<"a">>}

IsoInit ==
    /\ user_data = [u \in IsoUsers |-> EmptyDict]
    /\ inp = Update("none", "none", <<>>, EmptyDict, NoResp)
    /\ out = NoOut
    /\ searches = 0

IsoNext ==
    \E u \in IsoUsers :
        /\ \/ Search(u)
           \/ TapEpisode(u)
           \/ TapImport(u)
           \/ SendRange(u)
           \/ SendCancel(u)
           \/ SendCancelInput(u)
        /\ IsoInputs'

IsoSpec == IsoInit /\ [][IsoNext]_vars

(***************************************************************************)
(* BlockSpec: the handlers are coroutines of one event loop.  An update    *)
(* waits until the loop runs its handler; a handler that reaches           *)
(* call_danmaku_api stays inside requests.request, a synchronous call, and *)
(* holds the thread of the loop until the call returns.                    *)
(* inp.waiting[u] is the update of u not yet handled, inp.running the      *)
(* update whose handler is inside call_danmaku_api.                        *)
(***************************************************************************)
NoUpdate == Update("none", "none", <<>>, EmptyDict, NoResp)

\* the handler of update run on the session ud, the remote call answering
\* api_result
BlockResult(update, ud, api_result) ==
    CASE update.handler = "process_search_media" ->
             ProcessSearchMedia(ud, api_result)
      [] update.handler = "handle_get_episode_callback" ->
             HandleGetEpisodeCallback(ud, update.payload, api_result, FALSE)
      [] update.handler = "handle_import_callback" ->
             HandleImportCallback(ud, update.payload, api_result)

\* the thread of the event loop is free: no handler is inside requests.request
LoopFree == inp.running = NoUpdate

\* the loop can begin the handler of the update of u
CanStart(u) == LoopFree /\ inp.waiting[u] # NoUpdate

\* an update of u reaches the bot
Arrive(u) ==
    /\ inp.waiting[u] = NoUpdate
    /\ \E update \in
             {Update("process_search_media", u, <<>>, EmptyDict, NoResp),
              Update("handle_import_callback", u, <<>>, ImportCallback(0), NoResp)}
             \cup {Update("handle_get_episode_callback", u, <<>>, callback_data, NoResp) :
                      callback_data \in
                          {[action |-> "get_media_episode", data_id |-> IntToStr(0)]}
                          \cup {[a |-> "start_input_range", d |-> id] : id \in ShortIds}} :
          /\ update.handler = "process_search_media" =>
                 /\ searches < MaxSearches
                 /\ inp.running.handler # "process_search_media"
                 /\ \A v \in IsoUsers : inp.waiting[v].handler # "process_search_media"
          /\ inp' = [inp EXCEPT !.waiting[u] = update]
    /\ UNCHANGED <<user_data, out, searches>>

\* the loop runs the handler of u up to its remote call, or to its end when it
\* makes none
StartStep(u) ==
    /\ CanStart(u)
    /\ \E r \in {BlockResult(inp.waiting[u], user_data[u], NoResp)} :
          IF r.requests = <<>>
          THEN /\ user_data' = [user_data EXCEPT ![u] = r.ud]
               /\ out' = [handler |-> inp.waiting[u].handler, user |-> u,
                          ret |-> r.ret, replies |-> r.replies,
                          requests |-> r.requests, markup |-> r.markup,
                          selected |-> r.selected,
                          invalid_segments |-> r.invalid_segments]
               /\ inp' = [inp EXCEPT !.waiting[u] = NoUpdate]
          ELSE /\ inp' = [waiting |-> [inp.waiting EXCEPT ![u] = NoUpdate],
                          running |-> inp.waiting[u]]
               /\ UNCHANGED <<user_data, out>>
    /\ UNCHANGED searches

\* requests.request returns and the handler runs to its end
CallReturns ==
    /\ ~LoopFree
    /\ \E u \in {inp.running.user} :
       \E api_result \in
             CASE inp.running.handler = "process_search_media" ->
                      SearchResponses(SearchIdSeq[searches + 1])
               [] inp.running.handler = "handle_get_episode_callback" ->
                      FetchResponses(user_data[u], inp.running.payload)
               [] inp.running.handler = "handle_import_callback" ->
                      ImportResponses :
       \E r \in {BlockResult(inp.running, user_data[u], api_result)} :
          /\ user_data' = [user_data EXCEPT ![u] = r.ud]
          /\ out' = [handler |-> inp.running.handler, user |-> u,
                     ret |-> r.ret, replies |-> r.replies,
                     requests |-> r.requests, markup |-> r.markup,
                     selected |-> r.selected,
                     invalid_segments |-> r.invalid_segments]
          /\ inp' = [inp EXCEPT !.running = NoUpdate]
          /\ searches' = IF r.ret = SEARCH_RESULTS THEN searches + 1 ELSE searches

BlockInit ==
    /\ user_data = [u \in IsoUsers |-> EmptyDict]
    /\ inp = [waiting |-> [u \in IsoUsers |-> NoUpdate], running |-> NoUpdate]
    /\ out = NoOut
    /\ searches = 0

BlockNext ==
    \/ \E u \in IsoUsers : Arrive(u)
    \/ \E u \in IsoUsers : StartStep(u)
    \/ CallReturns

BlockSpec == BlockInit /\ [][BlockNext]_vars

(***************************************************************************)
(* LoadSpec: the order of the effects of a first fetch up to its remote    *)
(* call.  edit is what the edit that shows the loading placeholder does:   *)
(* "ok", "BadRequest" (caught and logged where it is raised) or "Exception"*)
(* (any other error, caught by the handler's last except clause).          *)
(***************************************************************************)
\* mutant: the remote call is made before the placeholder is shown
FirstFetchEffectsCallFirst(ud, data_id, edit) ==
    LET idx == IntParse(data_id)
        search_id == Get(ud, "search_id", "")
        request == [op |-> "request", request |-> FetchRequest(search_id, idx.val)]
    IN  IF ~idx.ok THEN <<[op |-> "answer", msg |-> "alert_invalid_param"]>>
        ELSE IF search_id = "" THEN <<[op |-> "answer", msg |-> "alert_no_search"]>>
        ELSE IF edit = "ok" THEN <<request, [op |-> "edit_loading"]>>
        ELSE <<request>>

\* section 3 of the handler up to call_danmaku_api: what the user and the
\* remote API see, in order
FirstFetchEffects(ud, data_id, edit) ==
    LET idx == IntParse(data_id)
        search_id == Get(ud, "search_id", "")
        request == [op |-> "request", request |-> FetchRequest(search_id, idx.val)]
    IN  IF ~idx.ok THEN <<[op |-> "answer", msg |-> "alert_invalid_param"]>>
        ELSE IF search_id = "" THEN <<[op |-> "answer", msg |-> "alert_no_search"]>>
        ELSE IF edit = "ok" THEN <<[op |-> "edit_loading"], request>>
        ELSE IF edit = "BadRequest" THEN <<request>>
        ELSE <<[op |-> "answer", msg |-> "alert_failed"],
               [op |-> "edit_retry",
                markup |-> RetryMarkup(ErrorRetryCallback(data_id))]>>

LoadTap ==
    /\ inp.handler = "pending"
    /\ inp' = [inp EXCEPT !.handler = "handle_get_episode_callback"]
    /\ out' = [handler |-> "handle_get_episode_callback", user |-> inp.user,
               effects |-> FirstFetchEffects(user_data[inp.user], inp.data_id,
                                             inp.edit)]
    /\ UNCHANGED <<user_data, searches>>

LoadInit ==
    /\ \E ud \in {EmptyDict}
                  \cup {ProcessSearchMedia(EmptyDict, r).ud :
                           r \in UNION {SearchResponses(sid) : sid \in SearchIds}} :
          user_data = [u \in Users |-> ud]
    /\ \E u \in Users, data_id \in UNION {[1..n -> TextChars] : n \in 1..2},
          edit \in {"ok", "BadRequest", "Exception"} :
          inp = [handler |-> "pending", user |-> u, data_id |-> data_id,
                 edit |-> edit]
    /\ out = NoOut
    /\ searches = 0

LoadSpec == LoadInit /\ [][LoadTap]_vars

(***************************************************************************)
(* CeilSpec: the keyboard a first fetch leaves behind when it fails or     *)
(* finds no usable episode, for result indices of up to MaxIndexDigits     *)
(* digits.  Python integers are unbounded; here such an index is kept as   *)
(* its decimal text index_text = str(int(data_id)).  The chat transport    *)
(* rejects a keyboard holding a payload over CALLBACK_DATA_MAX_LEN with    *)
(* BadRequest.                                                             *)
(***************************************************************************)
\* outcome "fetch_failed": the retry control is measured and carries "retry"
\* when over the ceiling.  outcome "no_episodes": the retry control is not
\* measured; over the ceiling the edit raises BadRequest and the except
\* branch leaves a control with data_id[:6]
RetryKeyboard(index_text, outcome) ==
    LET retry_callback == [action |-> "get_media_episode", data_id |-> index_text]
        too_long == RetryCallbackLen("get_media_episode", index_text)
                        > CALLBACK_DATA_MAX_LEN
    IN  IF outcome = "fetch_failed"
        THEN RetryMarkup(IF too_long
                         THEN [action |-> "get_media_episode",
                               data_id |-> <<"r", "e", "t", "r", "y">>]
                         ELSE retry_callback)
        ELSE IF too_long
        THEN RetryMarkup(ErrorRetryCallback(index_text))
        ELSE RetryMarkup(retry_callback)

CeilTap ==
    /\ inp.handler = "pending"
    /\ inp' = [inp EXCEPT !.handler = "handle_get_episode_callback"]
    /\ out' = [handler |-> "handle_get_episode_callback", user |-> inp.user,
               markup |-> RetryKeyboard(inp.index_text, inp.outcome)]
    /\ user_data' = [user_data EXCEPT
                        ![inp.user] = Put(@, "episode_data_map", EmptyDict)]
    /\ UNCHANGED searches

CeilInit ==
    /\ \E sid \in SearchIds :
          user_data = [u \in Users |->
                          [search_id |-> sid, search_results |-> SearchItems]]
    /\ \E u \in Users, n \in 1..MaxIndexDigits,
          outcome \in {"fetch_failed", "no_episodes"} :
          inp = [handler |-> "pending", user |-> u,
                 index_text |-> [i \in 1..n |-> "1"], outcome |-> outcome]
    /\ out = NoOut
    /\ searches = 0

CeilSpec == CeilInit /\ [][CeilTap]_vars

(***************************************************************************)
(* UrlSpec: Spec with the command /url added.  import_url_start runs for   *)
(* a user the permission check lets through; url is the text after the     *)
(* command ("" when there is none) and check is what                       *)
(* check_url_accessibility returns for it.                                 *)
(***************************************************************************)
\* mutant: the state is set without clearing the store
ImportUrlStartKeepsStore(ud, url, check) ==
    Result(Put(ud, "current_state", URL_INPUT), URL_INPUT,
           <<[msg |-> "prompt_url"]>>, <<>>, <<>>, {}, <<>>)

ImportUrlStart(ud, url, check) ==
    LET cleared == [current_state |-> URL_INPUT]
        valid == url \in {"http://v/1", "https://v/1"}
    IN  IF url # "" /\ valid /\ check.is_accessible
        THEN Result([current_state |-> KEYWORD_INPUT, import_url |-> url,
                     page_title |-> check.page_title],
                    KEYWORD_INPUT,
                    <<[msg |-> "checking_url"], [msg |-> "url_ok", url |-> url]>>,
                    <<>>, <<>>, {}, <<>>)
        ELSE IF url # "" /\ valid
        THEN Result(cleared, URL_INPUT,
                    <<[msg |-> "checking_url"], [msg |-> "url_unreachable", url |-> url]>>,
                    <<>>, <<>>, {}, <<>>)
        ELSE IF url # ""
        THEN Result(cleared, URL_INPUT,
                    <<[msg |-> "invalid_url", url |-> url], [msg |-> "prompt_url"]>>,
                    <<>>, <<>>, {}, <<>>)
        ELSE Result(cleared, URL_INPUT, <<[msg |-> "prompt_url"]>>,
                    <<>>, <<>>, {}, <<>>)

StartUrl(u) ==
    /\ \E url \in {"", "v/1", "http://v/1", "https://v/1"},
          check \in {[is_accessible |-> TRUE, page_title |-> "T"],
                     [is_accessible |-> TRUE, page_title |-> ""],
                     [is_accessible |-> FALSE, page_title |-> ""]} :
          Apply(u, Update("import_url_start", u, <<>>,
                          [url |-> url, check |-> check], NoResp),
                ImportUrlStart(user_data[u], url, check))
    /\ UNCHANGED searches

UrlNext ==
    \/ Next
    \/ \E u \in Users : StartUrl(u)

UrlSpec == Init /\ [][UrlNext]_vars

(***************************************************************************)
(* EpisodeInputSpec: handle_episode_input applied once to a message sent   *)
(* in the state EPISODE_INPUT of the URL flow.  api_result is what POST    *)
(* /import/url returns when it is called; send_fails says that the reply   *)
(* sent right after the call raises.  0 stands for a missing or falsy id.  *)
(***************************************************************************)
\* mutant: the store is cleared before the outcome of the call is known
HandleEpisodeInputClearsEarly(ud, text, api_result, send_fails) ==
    LET idx == IntParse(Strip(text))
    IN  IF ~idx.ok
        THEN Result(ud, EPISODE_INPUT, <<[msg |-> "invalid_number"]>>,
                    <<>>, <<>>, {}, <<>>)
        ELSE Result(EmptyDict, EPISODE_INPUT, <<[msg |-> "import_failed"]>>,
                    <<>>, <<>>, {}, <<>>)

HandleEpisodeInput(ud, text, api_result, send_fails) ==
    LET idx == IntParse(Strip(text))
        episode_index == idx.val
        url == Get(ud, "import_url", "")
        source == Get(ud, "selected_source", EmptyDict)
        source_id == IF Get(source, "sourceId", 0) # 0
                     THEN source.sourceId ELSE Get(source, "id", 0)
        page_title == Strip(Get(ud, "page_title", <<>>))
        base == [endpoint |-> "/import/url", sourceId |-> source_id,
                 episode_index |-> episode_index, url |-> url]
        import_data == IF page_title # <<>> THEN Put(base, "title", page_title)
                       ELSE base
        starting == [msg |-> "import_starting", episode_index |-> episode_index]
    IN  IF ~idx.ok
        THEN Result(ud, EPISODE_INPUT, <<[msg |-> "invalid_number"]>>,
                    <<>>, <<>>, {}, <<>>)
        ELSE IF episode_index < 1
        THEN Result(ud, EPISODE_INPUT, <<[msg |-> "not_positive"]>>,
                    <<>>, <<>>, {}, <<>>)
        ELSE IF ~Has(ud, "selected_source")
        THEN \* source is None: source.get raises, and no clause catches it
             Result(ud, "raise AttributeError", <<>>, <<>>, <<>>, {}, <<>>)
        ELSE IF url = "" \/ source_id = 0
        THEN Result(ud, EPISODE_INPUT, <<[msg |-> "missing_parameters"]>>,
                    <<>>, <<>>, {}, <<>>)
        ELSE IF send_fails
        THEN Result(ud, EPISODE_INPUT, <<starting, [msg |-> "import_error"]>>,
                    <<import_data>>, <<>>, {}, <<>>)
        ELSE IF api_result.success
        THEN Result(EmptyDict, END, <<starting, [msg |-> "import_submitted"]>>,
                    <<import_data>>, <<>>, {}, <<>>)
        ELSE Result(ud, EPISODE_INPUT,
                    <<starting,
                      [msg |-> "import_failed",
                       error |-> Get(api_result, "message", "<default>")]>>,
                    <<import_data>>, <<>>, {}, <<>>)

EpisodeInputStep ==
    /\ inp.handler = "pending"
    /\ \E r \in {HandleEpisodeInput(user_data[inp.user], inp.text, inp.resp,
                                     inp.payload.send_fails)} :
          Apply(inp.user, [inp EXCEPT !.handler = "handle_episode_input"], r)
    /\ UNCHANGED searches

EpisodeInputInit ==
    /\ \E ud \in
          {EmptyDict}
          \cup {[current_state |-> EPISODE_INPUT, import_url |-> "https://v/1",
                 page_title |-> page_title,
                 anime_matches |-> <<[animeId |-> 1, title |-> "A"]>>,
                 selected_anime |-> [animeId |-> 1, title |-> "A"],
                 anime_sources |-> <<source>>, selected_source |-> source] :
                   page_title \in {<<>>, <<" ">>, <<"T">>},
                   source \in {[sourceId |-> 7, providerName |-> "p"],
                               [id |-> 8, providerName |-> "p"],
                               [sourceId |-> 0, id |-> 8],
                               [providerName |-> "p"]}} :
          user_data = [u \in Users |-> ud]
    /\ \E u \in Users,
          text \in UNION {[1..n -> TextChars] : n \in 1..2} \cup {<<"0">>},
          api_result \in ImportResponses, send_fails \in BOOLEAN :
          inp = Update("pending", u, text, [send_fails |-> send_fails], api_result)
    /\ out = NoOut
    /\ searches = 0

EpisodeInputSpec == EpisodeInputInit /\ [][EpisodeInputStep]_vars

(***************************************************************************)
(* LibrarySpec: the module-level library_cache of the URL flow and the     *)
(* readers that call get_library_data on the one thread of the event loop. *)
(* Here user_data holds the shared cache under the key "library_cache",    *)
(* inp holds the clock, the readers whose call is due and the reader that  *)
(* is inside GET /library (with the current_time it took on entry), and    *)
(* out holds the last value get_library_data returned.                     *)
(***************************************************************************)
LibraryTtl == 3600

library_cache == user_data.library_cache

NoData == [is_none |-> TRUE, items |-> <<>>]

NoReader == [user |-> "none", current_time |-> 0]

\* the cache holds a snapshot younger than ttl at current_time
CacheValid(cache, current_time) ==
    /\ ~cache.data.is_none
    /\ current_time - cache.timestamp < cache.ttl

\* get_library_data from the answer of GET /library on
LibraryRefresh(cache, current_time, response) ==
    IF response.kind = "ok" /\ response.success
    THEN [cache |-> [cache EXCEPT !.data = [is_none |-> FALSE,
                                            items |-> response.data],
                                  !.timestamp = current_time],
          ret |-> response.data]
    ELSE [cache |-> cache, ret |-> <<>>]

\* no reader is inside requests.request
LibraryLoopFree == inp.running = NoReader

\* the loop can begin the call of reader u
CanRead(u) == LibraryLoopFree /\ u \in inp.due

\* what get_library_data returned last
LibraryOut(u, ret, refreshed, previous) ==
    [handler |-> "get_library_data", user |-> u, ret |-> ret,
     refreshed |-> refreshed, previous |-> previous]

\* a call of get_library_data by u becomes due
ReaderArrives(u) ==
    /\ u \notin inp.due
    /\ inp.running.user # u
    /\ inp' = [inp EXCEPT !.due = @ \cup {u}]
    /\ UNCHANGED <<user_data, out, searches>>

\* the loop runs get_library_data for u: to its end when the cache is valid,
\* else into GET /library
ReadStep(u) ==
    /\ CanRead(u)
    /\ IF CacheValid(library_cache, inp.now)
       THEN /\ out' = LibraryOut(u, library_cache.data.items, FALSE,
                                 library_cache.data)
            /\ inp' = [inp EXCEPT !.due = @ \ {u}]
       ELSE /\ inp' = [inp EXCEPT !.due = @ \ {u},
                                  !.running = [user |-> u,
                                               current_time |-> inp.now]]
            /\ UNCHANGED out
    /\ UNCHANGED <<user_data, searches>>

\* GET /library answers and get_library_data runs to its end
RefreshReturns ==
    /\ ~LibraryLoopFree
    /\ \E response \in
             {[kind |-> "ok", success |-> TRUE, data |-> items] :
                 items \in {<<>>, <<[animeId |-> 1, title |-> "A"]>>,
                            <<[animeId |-> 1, title |-> "A"],
                              [animeId |-> 2, title |-> "B"]>>}}
             \cup {[kind |-> "ok", success |-> FALSE, data |-> <<>>],
                   [kind |-> "exception", success |-> FALSE, data |-> <<>>]} :
       \E r \in {LibraryRefresh(library_cache, inp.running.current_time,
                                response)} :
          /\ user_data' = [user_data EXCEPT !.library_cache = r.cache]
          /\ out' = LibraryOut(inp.running.user, r.ret, TRUE,
                               library_cache.data)
          /\ inp' = [inp EXCEPT !.running = NoReader]
    /\ UNCHANGED searches

\* time passes, half a ttl at a time
ClockAdvances ==
    /\ inp.now < LibraryTtl + MaxClockSteps * (LibraryTtl \div 2)
    /\ inp' = [inp EXCEPT !.now = @ + (LibraryTtl \div 2)]
    /\ UNCHANGED <<user_data, out, searches>>

LibraryInit ==
    /\ user_data = [library_cache |->
                       [data |-> NoData, timestamp |-> 0, ttl |-> LibraryTtl]]
    /\ inp = [now |-> LibraryTtl, due |-> {}, running |-> NoReader]
    /\ out = LibraryOut("none", <<>>, FALSE, NoData)
    /\ searches = 0

LibraryNext ==
    \/ \E u \in IsoUsers : ReaderArrives(u)
    \/ \E u \in IsoUsers : ReadStep(u)
    \/ RefreshReturns
    \/ ClockAdvances

LibrarySpec == LibraryInit /\ [][LibraryNext]_vars

(***************************************************************************)
(* AutoIdSpec: import_auto_id_input applied once to a message sent in the  *)
(* state IMPORT_AUTO_ID_INPUT.  result is what determine_input_type makes  *)
(* of the stripped text, info is what the scraper of the platform answers  *)
(* when it is asked.  Identifiers are texts.                               *)
(***************************************************************************)
\* the two buttons that ask for the media type
MediaTypeKeyboard ==
    <<[action |-> "import_auto_media_type", type |-> "tv_series"],
      [action |-> "import_auto_media_type", type |-> "movie"]>>

\* a link whose media type is known: a film is imported at once, a series
\* goes on to the choice of the import method
AutoDetected(ud, search_type, platform_id, media_type, notice) ==
    LET ud1 == Put(Put(ud, "import_auto_id", platform_id),
                   "import_auto_media_type", media_type)
        params == [searchType |-> search_type, searchTerm |-> platform_id,
                   mediaType |-> media_type]
    IN  IF media_type = "movie"
        THEN Result(ud1, END, <<[msg |-> notice]>>,
                    <<[endpoint |-> "/import/auto", searchType |-> search_type,
                       searchTerm |-> platform_id, mediaType |-> media_type,
                       importMethod |-> "auto"]>>, <<>>, {}, <<>>)
        ELSE Result(Put(ud1, "import_auto_params", params),
                    IMPORT_AUTO_METHOD_SELECTION,
                    <<[msg |-> notice], [msg |-> "import_options"]>>,
                    <<>>, <<>>, {}, <<>>)

\* the tail of the handler: the media type is asked for
AskMediaType(ud, notices) ==
    Result(ud, IMPORT_AUTO_ID_INPUT,
           notices \o <<[msg |-> "choose_media_type"]>>,
           <<>>, MediaTypeKeyboard, {}, <<>>)

ImportAutoIdInput(ud, text, result, info) ==
    LET user_input == Strip(text)
        search_type == Get(ud, "import_auto_search_type", "tmdb")
        input_type == result.type
    IN  IF user_input = <<>>
        THEN Result(ud, IMPORT_AUTO_ID_INPUT, <<[msg |-> "empty_input"]>>,
                    <<>>, <<>>, {}, <<>>)
        ELSE IF input_type = "tmdb_url" /\ search_type = "tmdb"
        THEN AutoDetected(ud, search_type, result.tmdb_id, result.media_type,
                          "tmdb_link_parsed")
        ELSE IF input_type = "imdb_url" /\ search_type = "imdb"
        THEN AskMediaType(ud, <<[msg |-> "imdb_link_parsed"]>>)
        ELSE IF input_type = "bgm_url" /\ search_type = "bangumi"
        THEN IF info.kind = "ok" /\ info.success
             THEN AutoDetected(ud, search_type, result.bgm_id, info.media_type,
                               "bgm_info")
             ELSE Result(ud, END, <<[msg |-> "bgm_info_failed"]>>,
                         <<>>, <<>>, {}, <<>>)
        ELSE IF input_type = "tvdb_url" /\ search_type = "tvdb"
        THEN AskMediaType(ud, <<[msg |-> "tvdb_link_parsed"]>>)
        ELSE IF input_type = "douban_url" /\ search_type = "douban"
        THEN IF info.kind = "ok" /\ info.success
             THEN AutoDetected(ud, search_type, result.douban_id,
                               info.media_type, "douban_info")
             ELSE Result(ud, END, <<[msg |-> "douban_info_failed"]>>,
                         <<>>, <<>>, {}, <<>>)
        ELSE IF input_type \in {"tt_id", "keyword"} \/ search_type # "tmdb"
        THEN LET platform_id == Get(result, "value", user_input)
                 ud1 == Put(ud, "import_auto_id", platform_id)
             IN  IF search_type = "bangumi" /\ AllDigits(platform_id)
                 THEN IF info.kind = "ok" /\ info.success
                      THEN LET r == AutoDetected(ud1, search_type, platform_id,
                                                 info.media_type, "bgm_info")
                           IN  [r EXCEPT !.replies =
                                    <<[msg |-> "bgm_id"]>> \o @]
                      ELSE AskMediaType(ud1, <<[msg |-> "bgm_id"],
                                               [msg |-> "bgm_info_failed"]>>)
                 ELSE AskMediaType(ud1, <<[msg |-> "platform_id"]>>)
        ELSE AskMediaType(Put(ud, "import_auto_id", user_input),
                          <<[msg |-> "platform_id"]>>)

AutoIdStep ==
    /\ inp.handler = "pending"
    /\ \E r \in {ImportAutoIdInput(user_data[inp.user], inp.text,
                                    inp.payload.result, inp.payload.info)} :
          Apply(inp.user, [inp EXCEPT !.handler = "import_auto_id_input"], r)
    /\ UNCHANGED searches

AutoIdInit ==
    /\ \E search \in {EmptyDict}
                      \cup {[import_auto_search_type |-> t] :
                               t \in {"tmdb", "tvdb", "douban", "imdb",
                                      "bangumi"}},
          earlier \in {EmptyDict, [import_auto_id |-> <<"9", "9">>,
                                   import_auto_media_type |-> "movie"]} :
          user_data = [u \in Users |-> search @@ earlier]
    /\ \E u \in Users,
          in \in {[text |-> <<" ">>, result |-> [type |-> "keyword", value |-> <<>>]],
                  [text |-> <<"a">>, result |-> [type |-> "keyword", value |-> <<"a">>]],
                  [text |-> <<"1", "2">>,
                   result |-> [type |-> "keyword", value |-> <<"1", "2">>]],
                  [text |-> <<"t", "t", "1">>,
                   result |-> [type |-> "tt_id", value |-> <<"t", "t", "1">>]],
                  [text |-> <<"themoviedb.org/movie/", "3">>,
                   result |-> [type |-> "tmdb_url", tmdb_id |-> <<"3">>,
                               media_type |-> "movie"]],
                  [text |-> <<"themoviedb.org/tv/", "3">>,
                   result |-> [type |-> "tmdb_url", tmdb_id |-> <<"3">>,
                               media_type |-> "tv_series"]],
                  [text |-> <<"imdb.com/title/", "t", "t", "1">>,
                   result |-> [type |-> "imdb_url", imdb_id |-> <<"t", "t", "1">>]],
                  [text |-> <<"bgm.tv/subject/", "2">>,
                   result |-> [type |-> "bgm_url", bgm_id |-> <<"2">>]],
                  [text |-> <<"thetvdb.com/series/", "a">>,
                   result |-> [type |-> "tvdb_url", slug |-> <<"a">>,
                               media_type |-> "tv_series"]],
                  [text |-> <<"movie.douban.com/subject/", "1">>,
                   result |-> [type |-> "douban_url", douban_id |-> <<"1">>]]},
          info \in {[kind |-> "ok", success |-> TRUE, media_type |-> "movie"],
                    [kind |-> "ok", success |-> TRUE, media_type |-> "tv_series"],
                    [kind |-> "ok", success |-> FALSE, media_type |-> ""],
                    [kind |-> "exception", success |-> FALSE, media_type |-> ""]} :
          inp = Update("pending", u, in.text,
                       [result |-> in.result, info |-> info], NoResp)
    /\ out = NoOut
    /\ searches = 0

AutoIdSpec == AutoIdInit /\ [][AutoIdStep]_vars

(***************************************************************************)
(* Properties.                                                             *)
(***************************************************************************)
RangeHandled == out.handler = "handle_episode_range_input"

\* the session of the user of the last step
LastSession == user_data[out.user]

\* current_data_id resolves to a cached batch
Resolves(ud) ==
    /\ Has(ud, "current_data_id")
    /\ Has(ud, "episode_data_map")
    /\ ud.current_data_id \in DOMAIN ud.episode_data_map

CurrentBatch(ud) == ud.episode_data_map[ud.current_data_id]

\* the batch's episodeIndex set
BatchIndices(batch) ==
    {batch.cached_episodes[i].episodeIndex : i \in 1..Len(batch.cached_episodes)}

\* the fragments of a text: split on commas, trimmed, empty ones dropped
Fragments(text) == RangeSegments(Strip(text))

\* the range handler ran on a text with fragments against a resolvable batch
\* (it never changes user_data, so the batch it used is the one in the state)
RangeParsed ==
    /\ RangeHandled
    /\ Resolves(LastSession)
    /\ Fragments(inp.text) # <<>>

Ascending(s) == \A i \in 1..(Len(s) - 1) : s[i] < s[i + 1]

Orderings(n) ==
    {p \in [1..n -> 1..n] : \A i, j \in 1..n : p[i] = p[j] => i = j}

\* C1: the indices selected by handle_episode_range_input are the union, over
\* the fragments that parse, of the fragment's integers that are episodeIndex
\* values of the batch; they are reported without duplicates in ascending
\* order, and processing the fragments in any other order selects the same.
C1_SelectedIsUnion ==
    RangeParsed =>
        LET frags == Fragments(inp.text)
            valid == BatchIndices(CurrentBatch(LastSession))
            expected ==
                UNION {SegmentIndices(frags[i]).indices \cap valid :
                          i \in {j \in 1..Len(frags) : SegmentIndices(frags[j]).ok}}
        IN  /\ out.selected = expected
            /\ \A p \in Orderings(Len(frags)) :
                   ProcessSegments([i \in 1..Len(frags) |-> frags[p[i]]],
                                   valid, {}, <<>>).selected = out.selected
            /\ expected # {} =>
                   /\ out.replies[1].msg = "selected"
                   /\ Ascending(out.replies[1].indices)
                   /\ Range(out.replies[1].indices) = expected
                   /\ Len(out.replies[1].indices) = Cardinality(expected)

\* C1 witness: two fragments out of order that both select index 2
C1_Witness ==
    /\ RangeParsed
    /\ Len(Fragments(inp.text)) >= 2
    /\ LET frags == Fragments(inp.text) IN
           /\ SegmentIndices(frags[1]).ok /\ SegmentIndices(frags[2]).ok
           /\ 2 \in SegmentIndices(frags[1]).indices
           /\ 2 \in SegmentIndices(frags[2]).indices
           /\ 1 \in SegmentIndices(frags[2]).indices
           /\ 1 \notin SegmentIndices(frags[1]).indices
    /\ out.replies[1].msg = "selected"
    /\ out.replies[1].indices = <<1, 2>>

\* C2: a fragment that parses and covers indices outside the batch's indices
\* contributes its valid indices to the selection and has one annotated entry
\* in the invalid-fragment list that names exactly its rejected indices; only
\* such fragments have annotated entries.
C2_PartialFragment ==
    RangeParsed =>
        LET frags == Fragments(inp.text)
            valid == BatchIndices(CurrentBatch(LastSession))
            partial == {i \in 1..Len(frags) :
                           /\ SegmentIndices(frags[i]).ok
                           /\ ~(SegmentIndices(frags[i]).indices \subseteq valid)}
            annotated == {k \in 1..Len(out.invalid_segments) :
                             out.invalid_segments[k].annotated}
        IN  /\ \A i \in partial :
                   /\ (SegmentIndices(frags[i]).indices \cap valid) \subseteq out.selected
                   /\ \E k \in annotated :
                          /\ out.invalid_segments[k].seg = frags[i]
                          /\ Range(out.invalid_segments[k].rejected)
                                 = SegmentIndices(frags[i]).indices \ valid
                          /\ Ascending(out.invalid_segments[k].rejected)
            /\ \A i \in 1..Len(frags) :
                   SegmentIndices(frags[i]).ok =>
                       (SegmentIndices(frags[i]).indices \cap valid) \subseteq out.selected
            /\ Cardinality(annotated) = Cardinality(partial)
            /\ out.selected \subseteq valid

\* C2 witness: a range that is partly valid next to a fully valid fragment
C2_Witness ==
    /\ RangeParsed
    /\ LET frags == Fragments(inp.text)
           valid == BatchIndices(CurrentBatch(LastSession))
       IN  /\ Len(frags) = 2
           /\ \E i \in 1..2 :
                  /\ SegmentIndices(frags[i]).ok
                  /\ SegmentIndices(frags[i]).indices \cap valid # {}
                  /\ SegmentIndices(frags[i]).indices \ valid # {}
                  /\ SegmentIndices(frags[3 - i]).ok
                  /\ SegmentIndices(frags[3 - i]).indices \subseteq valid
                  /\ ~(SegmentIndices(frags[3 - i]).indices
                           \subseteq SegmentIndices(frags[i]).indices)
    /\ Len(out.invalid_segments) = 1
    /\ out.requests # <<>>

\* the entries of the invalid-fragment list that are verbatim fragments
VerbatimSegments ==
    SelectSeq(out.invalid_segments, LAMBDA e : ~e.annotated)

\* C3: a fragment that fails integer parsing is recorded verbatim in the
\* invalid-fragment list (in input order), selects nothing, and the fragments
\* after it are still processed.
C3_UnparsableFragment ==
    RangeParsed =>
        LET frags == Fragments(inp.text)
            valid == BatchIndices(CurrentBatch(LastSession))
            failed == SelectSeq(frags, LAMBDA f : ~SegmentIndices(f).ok)
        IN  /\ MapSeq(VerbatimSegments, LAMBDA e : e.seg) = failed
            /\ \A k \in 1..Len(VerbatimSegments) :
                   VerbatimSegments[k].rejected = <<>>
            /\ \A i \in 1..Len(frags) :
                   ~SegmentIndices(frags[i]).ok =>
                       \A j \in (i + 1)..Len(frags) :
                           SegmentIndices(frags[j]).ok =>
                               (SegmentIndices(frags[j]).indices \cap valid)
                                   \subseteq out.selected
            /\ (\A i \in 1..Len(frags) : ~SegmentIndices(frags[i]).ok) =>
                   out.selected = {}

\* C3 witness: an unparsable fragment followed by a fragment that selects
C3_Witness ==
    /\ RangeParsed
    /\ LET frags == Fragments(inp.text) IN
           /\ Len(frags) = 2
           /\ ~SegmentIndices(frags[1]).ok
           /\ SegmentIndices(frags[2]).ok
           /\ out.invalid_segments = <<VerbatimEntry(frags[1])>>
    /\ out.selected # {}

\* a fragment "a-b" of two unsigned decimal numerals with a > b
IsNumeral(s) == AllDigits(Strip(s))

Reversed(f) ==
    Find(f, "-") # 0
    /\ IsNumeral(SplitOnce(f, "-")[1])
    /\ IsNumeral(SplitOnce(f, "-")[2])
    /\ IntParse(SplitOnce(f, "-")[1]).val > IntParse(SplitOnce(f, "-")[2]).val

\* "b-a" for the fragment "a-b"
Swapped(f) ==
    Strip(SplitOnce(f, "-")[2]) \o <<"-">> \o Strip(SplitOnce(f, "-")[1])

\* C4: a fragment "a-b" with a > b selects what "b-a" selects in its place,
\* namely the batch's indices in the inclusive range b..a.
C4_RangeSwap ==
    RangeParsed =>
        LET frags == Fragments(inp.text)
            valid == BatchIndices(CurrentBatch(LastSession))
        IN  \A i \in 1..Len(frags) :
                Reversed(frags[i]) =>
                    LET a == IntParse(SplitOnce(frags[i], "-")[1]).val
                        b == IntParse(SplitOnce(frags[i], "-")[2]).val
                    IN  /\ ProcessSegments([frags EXCEPT ![i] = Swapped(frags[i])],
                                           valid, {}, <<>>).selected = out.selected
                        /\ ((b..a) \cap valid) \subseteq out.selected
                        /\ Len(frags) = 1 => out.selected = (b..a) \cap valid

\* C4 witness: the single fragment "2-1" selected episodes 1 and 2
C4_Witness ==
    /\ RangeParsed
    /\ Fragments(inp.text) = << <<"2", "-", "1">> >>
    /\ out.selected = {1, 2}

\* a text with no fragment: nothing but blanks and commas
OnlyBlank(text) == \A i \in 1..Len(text) : text[i] \in {" ", ","}

\* the step just taken ran the range handler for a user whose current id
\* resolved before the step
RangeStep ==
    /\ inp'.handler = "handle_episode_range_input"
    /\ Resolves(user_data[inp'.user])

\* C5: a range text without any non-blank fragment, sent while the batch
\* resolves, gets the empty-input reply: the handler stays in the range-input
\* state, issues no request and leaves user_data as it was; the reply differs
\* from the "no valid indices" reply, which is only given to texts that have
\* a fragment.
C5_EmptyInput ==
    [][ /\ (RangeStep /\ OnlyBlank(inp'.text)) =>
               /\ out'.ret = INPUT_EPISODE_RANGE
               /\ out'.replies = <<[msg |-> "empty_input"]>>
               /\ out'.requests = <<>>
               /\ user_data' = user_data
        /\ (RangeStep /\ out'.replies[1].msg = "no_valid") =>
               ~OnlyBlank(inp'.text)
      ]_vars

\* C5 witness: a text of blanks and commas was answered with the empty-input
\* reply
C5_Witness ==
    /\ RangeHandled
    /\ Resolves(LastSession)
    /\ Len(inp.text) >= 2
    /\ OnlyBlank(inp.text)
    /\ \E i \in 1..Len(inp.text) : inp.text[i] = ","
    /\ out.replies = <<[msg |-> "empty_input"]>>
    /\ out.ret = INPUT_EPISODE_RANGE

\* no fragment of the text denotes an episodeIndex of the batch
NothingValid(text, batch) ==
    \A i \in 1..Len(Fragments(text)) :
        \/ ~SegmentIndices(Fragments(text)[i]).ok
        \/ SegmentIndices(Fragments(text)[i]).indices \cap BatchIndices(batch) = {}

\* C6: when no fragment selects an episode of the batch, the handler re-prompts
\* in the range-input state with the "no valid indices" reply, issues no
\* request, and keeps the cached batches and the current short id.
C6_NothingSelected ==
    [][ (/\ RangeStep
         /\ Fragments(inp'.text) # <<>>
         /\ NothingValid(inp'.text, CurrentBatch(user_data[inp'.user]))) =>
            /\ out'.ret = INPUT_EPISODE_RANGE
            /\ Len(out'.replies) = 1
            /\ out'.replies[1].msg = "no_valid"
            /\ out'.replies[1].invalid = out'.invalid_segments
            /\ out'.requests = <<>>
            /\ out'.selected = {}
            /\ Resolves(user_data'[inp'.user])
            /\ user_data'[inp'.user].episode_data_map
                   = user_data[inp'.user].episode_data_map
            /\ user_data'[inp'.user].current_data_id
                   = user_data[inp'.user].current_data_id
      ]_vars

\* C6 witness: a text whose fragments were all rejected was answered with the
\* re-prompt, one fragment unparsable and one out of range
C6_Witness ==
    /\ RangeHandled
    /\ Resolves(LastSession)
    /\ out.replies[1].msg = "no_valid"
    /\ out.ret = INPUT_EPISODE_RANGE
    /\ Len(out.invalid_segments) = 2
    /\ \E i, j \in 1..2 :
           out.invalid_segments[i].annotated /\ ~out.invalid_segments[j].annotated

\* C7: a range import issues exactly one request, POST /import/edited, whose
\* episode list holds one full descriptor (provider, episodeId, title,
\* episodeIndex) of a cached episode for each selected index and nothing
\* else; the count reported on success is the number of selected indices.
C7_ImportDescriptors ==
    (RangeHandled /\ Resolves(LastSession)) =>
        LET cached == CurrentBatch(LastSession).cached_episodes IN
        /\ (out.selected # {}) <=> (out.requests # <<>>)
        /\ Len(out.requests) <= 1
        /\ out.requests # <<>> =>
               LET req == out.requests[1] IN
               /\ req.endpoint = "/import/edited"
               /\ Len(req.episodes) = Cardinality(out.selected)
               /\ {req.episodes[i].episodeIndex : i \in 1..Len(req.episodes)}
                      = out.selected
               /\ \A i \in 1..Len(req.episodes) :
                      /\ DOMAIN req.episodes[i] = EpisodeKeys
                      /\ \E j \in 1..Len(cached) :
                             \A key \in EpisodeKeys :
                                 req.episodes[i][key] = cached[j][key]
               /\ inp.resp.success =>
                      /\ out.replies[2].msg = "import_submitted"
                      /\ out.replies[2].count = Cardinality(out.selected)

\* C7 witness: two of three cached episodes were submitted and the success
\* reply counted two
C7_Witness ==
    /\ RangeHandled
    /\ Resolves(LastSession)
    /\ Len(CurrentBatch(LastSession).cached_episodes) = 3
    /\ Len(out.requests) = 1
    /\ out.requests[1].episodes = <<E2, E4>>
    /\ inp.resp.success
    /\ out.replies[2].count = 2

\* C8: a batch is cached with the session's search id and the result index of
\* the tap that fetched it, and a range import submits the searchId and
\* resultIndex of the cached batch, whatever the session's search id is by
\* then.
C8_CapturedSearchId ==
    [][ /\ inp'.handler = "handle_get_episode_callback" =>
               \A k \in DOMAIN BatchMap(user_data'[inp'.user]) :
                   (\/ k \notin DOMAIN BatchMap(user_data[inp'.user])
                    \/ BatchMap(user_data[inp'.user])[k]
                           # BatchMap(user_data'[inp'.user])[k]) =>
                       /\ BatchMap(user_data'[inp'.user])[k].search_id
                              = Get(user_data[inp'.user], "search_id", "")
                       /\ BatchMap(user_data'[inp'.user])[k].result_index
                              = IntParse(DataIdOf(inp'.payload)).val
        /\ inp'.handler # "handle_get_episode_callback" =>
               \A k \in DOMAIN BatchMap(user_data'[inp'.user]) :
                   /\ k \in DOMAIN BatchMap(user_data[inp'.user])
                   /\ BatchMap(user_data'[inp'.user])[k]
                          = BatchMap(user_data[inp'.user])[k]
        /\ (inp'.handler = "handle_episode_range_input" /\ out'.requests # <<>>) =>
               /\ Resolves(user_data[inp'.user])
               /\ out'.requests[1].searchId
                      = CurrentBatch(user_data[inp'.user]).search_id
               /\ out'.requests[1].result_index
                      = CurrentBatch(user_data[inp'.user]).result_index
      ]_vars

\* C8 witness: a range import went out with the search id of the batch after
\* a later search had replaced the session's search id
C8_Witness ==
    /\ RangeHandled
    /\ out.requests # <<>>
    /\ LastSession.search_id = SearchIdSeq[2]
    /\ out.requests[1].searchId = SearchIdSeq[1]
    /\ out.requests[1].result_index = 0

\* the result index carried by a control that carries nothing else: the
\* import-all control, and the first-fetch and retry controls
CarriedResultIndex ==
    IF out.handler = "handle_import_callback"
    THEN inp.payload.result_index
    ELSE IntParse(DataIdOf(inp.payload)).val

ResultIndexControlTapped ==
    \/ /\ out.handler = "handle_import_callback"
       /\ Has(inp.payload, "result_index")
    \/ /\ out.handler = "handle_get_episode_callback"
       /\ ActionOf(inp.payload) = "get_media_episode"
       /\ IntParse(DataIdOf(inp.payload)).ok

\* a page for result ri was rendered under an earlier search: its batch is
\* still cached, and the session's search id has been replaced since
RenderedUnderEarlierSearch(ud, ri) ==
    /\ Has(ud, "search_id")
    /\ \E k \in DOMAIN BatchMap(ud) :
           /\ BatchMap(ud)[k].result_index = ri
           /\ BatchMap(ud)[k].search_id # ud.search_id

\* C9: after a new search has replaced the session's search id, tapping a
\* control of the earlier search that carries only a resultIndex issues no
\* ImportDirect or FetchEpisodes request that pairs that resultIndex with the
\* new searchId.
C9_StaleControlFailsGracefully ==
    (/\ ResultIndexControlTapped
     /\ RenderedUnderEarlierSearch(LastSession, CarriedResultIndex)) =>
        \A i \in 1..Len(out.requests) :
            ~(/\ out.requests[i].searchId = LastSession.search_id
              /\ out.requests[i].result_index = CarriedResultIndex)

\* C10: every episode of every cached batch has the four fields provider,
\* episodeId, title and episodeIndex present and non-empty.
C10_OnlyCompleteEpisodesCached ==
    \A u \in Users :
        \A k \in DOMAIN BatchMap(user_data[u]) :
            \A i \in 1..Len(BatchMap(user_data[u])[k].cached_episodes) :
                LET ep == BatchMap(user_data[u])[k].cached_episodes[i] IN
                /\ EpisodeKeys \subseteq DOMAIN ep
                /\ ep.provider # ""
                /\ ep.episodeId # ""
                /\ ep.title # ""

(***************************************************************************)
(* Properties of the episode pages and their controls.                     *)
(***************************************************************************)
EpisodeTapped == out.handler = "handle_get_episode_callback"

\* the step was a first fetch whose request succeeded
FetchSucceeded ==
    /\ EpisodeTapped
    /\ ActionOf(inp.payload) = "get_media_episode"
    /\ inp.resp.success

\* an episode that carries the four keys
HasAllKeys(ep) == \A key \in EpisodeKeys : key \in DOMAIN ep

\* the controls of a keyboard
AllButtons(markup) == UNION {Range(markup[i]) : i \in 1..Len(markup)}

ButtonsOfKind(markup, kind) == {b \in AllButtons(markup) : b.kind = kind}

\* the step rendered an episode page
PageRendered ==
    /\ EpisodeTapped
    /\ out.replies # <<>>
    /\ out.replies[1].msg = "episode_page"

\* the short id of the batch a rendered page shows
RenderedId ==
    IF ActionOf(inp.payload) = "get_media_episode"
    THEN Md5Hex8(LastSession.search_id, IntParse(DataIdOf(inp.payload)).val)
    ELSE DataIdOf(inp.payload)

RenderedBatch == BatchMap(LastSession)[RenderedId]

\* the page number the tap asked for (a first fetch shows page 1)
RequestedPage ==
    IF ActionOf(inp.payload) = "get_media_episode" THEN 1
    ELSE CurrentPageOf(inp.payload)

\* C11: a first fetch that succeeds with no episode carrying all four fields
\* replies "no episodes", leaves a keyboard of one retry control for the same
\* result, registers no batch and no current short id, and ends the step.
C11_NoEpisodes ==
    [][ (/\ inp'.handler = "handle_get_episode_callback"
         /\ ActionOf(inp'.payload) = "get_media_episode"
         /\ inp'.resp.success
         /\ \A i \in 1..Len(inp'.resp.data) : ~HasAllKeys(inp'.resp.data[i])) =>
            /\ out'.replies = <<[msg |-> "no_episodes"]>>
            /\ Len(out'.markup) = 1
            /\ Len(out'.markup[1]) = 1
            /\ out'.markup[1][1].kind = "retry"
            /\ ActionOf(out'.markup[1][1].callback_data) = "get_media_episode"
            /\ IntParse(DataIdOf(out'.markup[1][1].callback_data)).val
                   = IntParse(DataIdOf(inp'.payload)).val
            /\ out'.ret = END
            /\ BatchMap(user_data'[inp'.user]) = BatchMap(user_data[inp'.user])
            /\ Has(user_data'[inp'.user], "current_data_id")
                   = Has(user_data[inp'.user], "current_data_id")
            /\ Has(user_data[inp'.user], "current_data_id") =>
                   user_data'[inp'.user].current_data_id
                       = user_data[inp'.user].current_data_id
      ]_vars

\* C11 witness: a fetch returned two incomplete episodes and the reply was
\* "no episodes" with nothing cached
C11_Witness ==
    /\ FetchSucceeded
    /\ Len(inp.resp.data) = 2
    /\ out.replies = <<[msg |-> "no_episodes"]>>
    /\ BatchMap(LastSession) = EmptyDict

\* C12: a rendered page reports totalPages = ceil(totalCount / 10), shows the
\* requested page clamped into 1..totalPages, and lists exactly the cached
\* episodes at positions (page-1)*10 .. min(page*10, totalCount)-1, in order.
C12_Pagination ==
    PageRendered =>
        LET cached == RenderedBatch.cached_episodes
            n == Len(cached)
            reply == out.replies[1]
            tp == reply.total_pages
            pg == reply.page
            last == IF pg * 10 < n THEN pg * 10 ELSE n
        IN  /\ reply.total = n
            /\ tp * 10 >= n
            /\ (tp - 1) * 10 < n
            /\ pg \in 1..tp
            /\ RequestedPage \in 1..tp => pg = RequestedPage
            /\ RequestedPage < 1 => pg = 1
            /\ RequestedPage > tp => pg = tp
            /\ Len(reply.lines) = last - (pg - 1) * 10
            /\ \A i \in 1..Len(reply.lines) :
                   /\ reply.lines[i].episodeIndex
                          = cached[(pg - 1) * 10 + i].episodeIndex
                   /\ reply.lines[i].title = cached[(pg - 1) * 10 + i].title
                   /\ reply.lines[i].provider = cached[(pg - 1) * 10 + i].provider

\* C12 witness: 23 episodes, page 5 requested, page 3 of 3 shown with the
\* last three episodes
C12_Witness ==
    /\ PageRendered
    /\ Len(RenderedBatch.cached_episodes) = 23
    /\ RequestedPage = 5
    /\ out.replies[1].page = 3
    /\ out.replies[1].total_pages = 3
    /\ Len(out.replies[1].lines) = 3
    /\ out.replies[1].lines[1].episodeIndex = 21

\* C13: on a rendered page the previous-page control is there exactly when
\* page > 1 and carries page-1, and the next-page control is there exactly
\* when page < totalPages and carries page+1; both name the page's batch.
C13_PageControls ==
    PageRendered =>
        LET pg == out.replies[1].page
            tp == out.replies[1].total_pages
            prevs == ButtonsOfKind(out.markup, "prev")
            nexts == ButtonsOfKind(out.markup, "next")
        IN  /\ Cardinality(prevs) = IF pg > 1 THEN 1 ELSE 0
            /\ Cardinality(nexts) = IF pg < tp THEN 1 ELSE 0
            /\ \A b \in prevs :
                   /\ ActionOf(b.callback_data) = "switch_episode_page"
                   /\ DataIdOf(b.callback_data) = RenderedId
                   /\ CurrentPageOf(b.callback_data) = pg - 1
            /\ \A b \in nexts :
                   /\ ActionOf(b.callback_data) = "switch_episode_page"
                   /\ DataIdOf(b.callback_data) = RenderedId
                   /\ CurrentPageOf(b.callback_data) = pg + 1

\* C13 witness: page 2 of 3 with a previous control for page 1 and a next
\* control for page 3
C13_Witness ==
    /\ PageRendered
    /\ out.replies[1].total_pages = 3
    /\ out.replies[1].page = 2
    /\ \E b \in ButtonsOfKind(out.markup, "prev") : b.callback_data.p = 1
    /\ \E b \in ButtonsOfKind(out.markup, "next") : b.callback_data.p = 3

\* C14: every rendered page has one input-range control naming the page's
\* batch and one import-all control carrying the result index the batch was
\* fetched for.
C14_InputAndImportAll ==
    PageRendered =>
        LET inputs == ButtonsOfKind(out.markup, "input")
            imports == ButtonsOfKind(out.markup, "import_all")
        IN  /\ Cardinality(inputs) = 1
            /\ Cardinality(imports) = 1
            /\ \A b \in inputs :
                   /\ ActionOf(b.callback_data) = "start_input_range"
                   /\ DataIdOf(b.callback_data) = RenderedId
            /\ \A b \in imports :
                   /\ b.callback_data.action = "import_media"
                   /\ b.callback_data.result_index = RenderedBatch.result_index

\* C14 witness: the second page of the batch of result 1, reached by a page
\* switch, carries import-all for result 1
C14_Witness ==
    /\ PageRendered
    /\ ActionOf(inp.payload) = "switch_episode_page"
    /\ out.replies[1].page = 2
    /\ RenderedBatch.result_index = 1
    /\ \E b \in ButtonsOfKind(out.markup, "import_all") :
           b.callback_data.result_index = 1

\* C15: the serialized payload of every rendered control is at most 64
\* characters long.
C15_PayloadCeiling ==
    \A b \in AllButtons(out.markup) : CallbackLen(b.callback_data) <= 64

\* C15 witness: a page with all four controls, the longest payload 53
\* characters
C15_Witness ==
    /\ PageRendered
    /\ Cardinality(AllButtons(out.markup)) = 4
    /\ \E b \in AllButtons(out.markup) : CallbackLen(b.callback_data) = 53

\* the identifier a control carries (<<>> when it carries none)
ControlId(b) == DataIdOf(b.callback_data)

\* id is a proper, non-empty prefix of a registered short id
TruncatedShortId(id, ud) ==
    /\ id # <<>>
    /\ \E k \in DOMAIN BatchMap(ud) : Len(id) < Len(k) /\ id = Take(k, Len(id))

\* C16: a rendered control whose identifier is a short id cut short carries
\* an identifier that is a key of the user's batch map.
C16_TruncatedIdResolves ==
    EpisodeTapped =>
        \A b \in AllButtons(out.markup) :
            TruncatedShortId(ControlId(b), LastSession) =>
                ControlId(b) \in DOMAIN BatchMap(LastSession)

\* C17: every control the episode handler renders uses only the short field
\* names a, d and p.
C17_ShortFieldNames ==
    EpisodeTapped =>
        \A b \in AllButtons(out.markup) :
            DOMAIN b.callback_data \subseteq {"a", "d", "p"}

\* C18: every batch is registered under the short id of its own (searchId,
\* resultIndex) pair, and right after a successful first fetch for (s, i) the
\* short id of (s, i) resolves to a batch with searchId s, resultIndex i and
\* the fetched episodes that carry all four fields.
C18_ShortIdResolves ==
    [][ /\ \A u \in Users : \A k \in DOMAIN BatchMap(user_data'[u]) :
               k = Md5Hex8(BatchMap(user_data'[u])[k].search_id,
                           BatchMap(user_data'[u])[k].result_index)
        /\ (/\ inp'.handler = "handle_get_episode_callback"
            /\ ActionOf(inp'.payload) = "get_media_episode"
            /\ inp'.resp.success
            /\ \E j \in 1..Len(inp'.resp.data) : HasAllKeys(inp'.resp.data[j])) =>
               LET s == user_data[inp'.user].search_id
                   i == IntParse(DataIdOf(inp'.payload)).val
                   k == Md5Hex8(s, i)
                   m == BatchMap(user_data'[inp'.user])
                   kept == SelectSeq(inp'.resp.data, HasAllKeys)
               IN  /\ k \in DOMAIN m
                   /\ m[k].search_id = s
                   /\ m[k].result_index = i
                   /\ m[k].cached_episodes = kept
                   /\ m[k].total_episodes = Len(kept)
      ]_vars

\* C18 witness: the first fetch of result 1 of the second search resolved
\* under the short id that result 0 of the first search also has
C18_Witness ==
    /\ FetchSucceeded
    /\ PageRendered
    /\ LastSession.search_id = SearchIdSeq[2]
    /\ DataIdOf(inp.payload) = <<"1">>
    /\ Md5Hex8(SearchIdSeq[2], 1) = Md5Hex8(SearchIdSeq[1], 0)
    /\ RenderedBatch.search_id = SearchIdSeq[2]
    /\ RenderedBatch.result_index = 1
    /\ Cardinality(DOMAIN BatchMap(LastSession)) = 2

\* C19: while the session is not cleared, a short id that holds a batch keeps
\* holding the same episode list across every step.
C19_EpisodesImmutable ==
    [][ inp'.handler # "cancel" =>
            \A u \in Users : \A k \in DOMAIN BatchMap(user_data[u]) :
                /\ k \in DOMAIN BatchMap(user_data'[u])
                /\ BatchMap(user_data'[u])[k].cached_episodes
                       = BatchMap(user_data[u])[k].cached_episodes
      ]_vars

\* the keys of a session other than the batch map and the current short id
OtherKeys(ud) == DOMAIN ud \ {"episode_data_map", "current_data_id"}

\* C20: a page-switch tap or a start-input-range tap issues no request and
\* leaves the cached batches and every other session key as they were; a page
\* switch also leaves the current short id, and a start-input-range tap sets
\* it to nothing but the tapped, registered short id.
C20_CachedTapFrame ==
    [][ (/\ inp'.handler = "handle_get_episode_callback"
         /\ ActionOf(inp'.payload) \in {"switch_episode_page", "start_input_range"}) =>
            LET ud == user_data[inp'.user]
                ud2 == user_data'[inp'.user]
            IN  /\ out'.requests = <<>>
                /\ BatchMap(ud2) = BatchMap(ud)
                /\ OtherKeys(ud2) = OtherKeys(ud)
                /\ \A key \in OtherKeys(ud) : ud2[key] = ud[key]
                /\ Get(ud2, "current_data_id", <<>>) # Get(ud, "current_data_id", <<>>) =>
                       /\ ActionOf(inp'.payload) = "start_input_range"
                       /\ ud2.current_data_id = DataIdOf(inp'.payload)
                       /\ ud2.current_data_id \in DOMAIN BatchMap(ud)
                /\ out'.ret = INPUT_EPISODE_RANGE =>
                       ud2.current_data_id = DataIdOf(inp'.payload)
      ]_vars

\* C20 witness: with two batches cached, a start-input-range tap chose one of
\* them and the handler asked for the range
C20_Witness ==
    /\ EpisodeTapped
    /\ ActionOf(inp.payload) = "start_input_range"
    /\ out.ret = INPUT_EPISODE_RANGE
    /\ Cardinality(DOMAIN BatchMap(LastSession)) = 2
    /\ LastSession.current_data_id = DataIdOf(inp.payload)

(***************************************************************************)
(* Properties of the error paths and of the session lifetime.              *)
(***************************************************************************)
\* the replies with which the handlers of the episode flow report an error
ErrorReplyMsgs ==
    {"alert_invalid", "alert_stale", "alert_invalid_param", "alert_no_search",
     "fetch_failed", "no_episodes", "alert_failed", "stale", "empty_input",
     "no_valid", "import_failed"}

EpisodeFlowHandlers ==
    {"handle_get_episode_callback", "handle_episode_range_input",
     "handle_import_callback"}

\* the step that led to this state ended in an error outcome
ErrorOutcome(o) ==
    /\ o.handler \in EpisodeFlowHandlers
    /\ \E i \in 1..Len(o.replies) : o.replies[i].msg \in ErrorReplyMsgs

\* a session with an absent batch map read as an empty one
SessionView(ud) ==
    [k \in DOMAIN ud \cup {"episode_data_map"} |->
        IF k = "episode_data_map" THEN BatchMap(ud) ELSE ud[k]]

\* C21: a step of the episode flow that ends in an error outcome leaves the
\* user's session as it was before the step (an absent batch map counting as
\* an empty one) or empty.
C21_ErrorPathsAtomic ==
    [][ ErrorOutcome(out') =>
            \/ SessionView(user_data'[out'.user]) = SessionView(user_data[out'.user])
            \/ user_data'[out'.user] = EmptyDict
      ]_vars

\* the session holds no cached batch and no current short id
FlowDataCleared(ud) ==
    /\ BatchMap(ud) = EmptyDict
    /\ ~Has(ud, "current_data_id")

\* C22: after the general cancel command, and after the cancel of a range
\* input the dialog was waiting for, the user's session holds no cached batch
\* and no current short id.
C22_CancelClears ==
    [][ (\/ out'.handler = "cancel"
         \/ /\ out'.handler = "cancel_episode_input"
            /\ out.ret = INPUT_EPISODE_RANGE
            /\ out.user = out'.user) =>
            FlowDataCleared(user_data'[out'.user])
      ]_vars

\* the range handler submitted the import and ended the dialog
ImportCompleted ==
    /\ RangeHandled
    /\ out.requests # <<>>
    /\ out.ret = END

\* C23: after a range import was submitted and the dialog ended, the batch
\* and the current short id that the import used are gone from the session.
C23_CompletionClears ==
    ImportCompleted =>
        /\ ~Has(LastSession, "current_data_id")
        /\ \A k \in DOMAIN BatchMap(LastSession) :
               ~(/\ BatchMap(LastSession)[k].search_id = out.requests[1].searchId
                 /\ BatchMap(LastSession)[k].result_index = out.requests[1].result_index)

\* the tapped control switches the page or starts range input and names an
\* identifier that is no key of the batch map ud
StaleControl(callback_data, ud) ==
    /\ ActionOf(callback_data) \in {"switch_episode_page", "start_input_range"}
    /\ DataIdOf(callback_data) # <<>>
    /\ DataIdOf(callback_data) \notin DOMAIN BatchMap(ud)

\* C24: a page-switch or start-input-range control whose identifier is no key
\* of the batch map, and a range message arriving when the current short id
\* is missing or resolves to no batch, get the stale reply and end the dialog
\* without a request and without a change to the cached batches.
C24_StaleOutcome ==
    [][ LET ud == user_data[out'.user]
            ud2 == user_data'[out'.user]
        IN  /\ (/\ out'.handler = "handle_get_episode_callback"
                /\ StaleControl(inp'.payload, ud)) =>
                   /\ out'.replies = <<[msg |-> "alert_stale"]>>
                   /\ out'.ret = END
                   /\ out'.requests = <<>>
                   /\ BatchMap(ud2) = BatchMap(ud)
            /\ (/\ out'.handler = "handle_episode_range_input"
                /\ ~Resolves(ud)) =>
                   /\ out'.replies = <<[msg |-> "stale"]>>
                   /\ out'.ret = END
                   /\ out'.requests = <<>>
                   /\ ud2 = ud
      ]_vars

\* C24 witness: with one batch cached, a page-switch control naming another
\* identifier was answered as stale
C24_Witness ==
    /\ EpisodeTapped
    /\ ActionOf(inp.payload) = "switch_episode_page"
    /\ BatchMap(LastSession) # EmptyDict
    /\ DataIdOf(inp.payload) \notin DOMAIN BatchMap(LastSession)
    /\ out.replies = <<[msg |-> "alert_stale"]>>
    /\ out.ret = END

(***************************************************************************)
(* Properties of the payload decoding.                                     *)
(***************************************************************************)
\* no JSON, no object, no or an unknown action, or no result index
MalformedImport(loaded) ==
    \/ loaded.t # "dict"
    \/ PyGet(loaded.dict, "action") # Py("name", "import_media")
    \/ PyGet(loaded.dict, "result_index").t = "NoneType"

\* no JSON, no object, no or an unknown action, no or an empty identifier,
\* or a page that is neither an integer nor a numeral
MalformedEpisode(loaded) ==
    \/ loaded.t # "dict"
    \/ \E names \in {<<"a", "d", "p">>, <<"action", "data_id", "current_page">>} :
          /\ DOMAIN loaded.dict \subseteq {names[1], names[2], names[3]}
          /\ \/ PyGet(loaded.dict, names[1]).t # "name"
             \/ PyGet(loaded.dict, names[1]).name \notin ValidActions
             \/ ~Truthy(PyGet(loaded.dict, names[2]))
             \/ /\ names[3] \in DOMAIN loaded.dict
                /\ ~PyIntOf(loaded.dict[names[3]]).ok

CallbackHandled ==
    out.handler \in {"handle_get_episode_callback", "handle_import_callback"}

MalformedPayload ==
    \/ out.handler = "handle_import_callback" /\ MalformedImport(inp.payload)
    \/ out.handler = "handle_get_episode_callback" /\ MalformedEpisode(inp.payload)

\* C25: whatever the payload decodes to, both callback handlers return
\* without raising and with a message to the user, and for a payload that
\* is no JSON, no object, lacks a field, has a field of the wrong type or
\* names an unknown action they issue no request.
C25_MalformedPayloadPrompts ==
    CallbackHandled =>
        /\ out.ret # "raise AttributeError"
        /\ out.replies # <<>>
        /\ MalformedPayload => out.requests = <<>>

(***************************************************************************)
(* Properties of call_danmaku_api.                                         *)
(***************************************************************************)
ApiCalled == out.handler = "call_danmaku_api"

\* C26: for every outcome of the HTTP request call_danmaku_api returns, and
\* what it returns is an envelope with success = TRUE and the decoded body,
\* or success = FALSE and one of its four error messages, whose quoted text
\* is at most 100 (HTTP error) or 50 (other exception) characters long; the
\* success envelope is returned exactly for a JSON body with a status
\* outside 400..599.
C26_ApiNeverRaises ==
    ApiCalled =>
        /\ DOMAIN out.result = {"returns"}
        /\ LET env == out.result.returns
               o == inp.outcome
               ok == /\ o.kind = "response"
                     /\ o.is_json
                     /\ ~(400 <= o.status /\ o.status < 600)
           IN  /\ env.success = ok
               /\ env.success => DOMAIN env = {"success", "data"} /\ env.data = o.body
               /\ ~env.success =>
                      /\ DOMAIN env = {"success", "error"}
                      /\ env.error.msg \in {"timeout", "connection_failed",
                                            "http_error", "unknown_error"}
                      /\ env.error.msg = "http_error" =>
                             /\ env.error.status = o.status
                             /\ Len(env.error.text) <= 100
                             /\ env.error.text = Take(o.text, Len(env.error.text))
                      /\ env.error.msg = "unknown_error" => Len(env.error.text) <= 50

\* C26 witness: a 2xx response whose text is no JSON and longer than the
\* quoted part came back as a failure envelope
C26_Witness ==
    /\ ApiCalled
    /\ inp.outcome.kind = "response"
    /\ inp.outcome.status = 200
    /\ ~inp.outcome.is_json
    /\ Len(inp.outcome.text) > 50
    /\ "returns" \in DOMAIN out.result
    /\ ~out.result.returns.success
    /\ out.result.returns.error.msg = "unknown_error"
    /\ Len(out.result.returns.error.text) = 50

(***************************************************************************)
(* Properties of the import requests.                                      *)
(***************************************************************************)
\* the import requests of the last step
ImportRequests ==
    SelectSeq(out.requests,
              LAMBDA req : req.endpoint \in {"/import/edited", "/import/direct"})

\* C27: a step of the range handler sends at most one /import/edited
\* request and a step of the import-all handler at most one /import/direct
\* request, and these are the only requests of the step, whether the
\* request succeeded or failed.
C27_NoAutomaticRetry ==
    /\ out.handler = "handle_episode_range_input" =>
           /\ Len(out.requests) <= 1
           /\ \A i \in 1..Len(out.requests) : out.requests[i].endpoint = "/import/edited"
    /\ out.handler = "handle_import_callback" =>
           /\ Len(out.requests) <= 1
           /\ \A i \in 1..Len(out.requests) : out.requests[i].endpoint = "/import/direct"
    /\ out.handler \notin {"handle_episode_range_input", "handle_import_callback"} =>
           ImportRequests = <<>>

\* C27 witness: a range import failed and was sent once
C27_Witness ==
    /\ RangeHandled
    /\ ~inp.resp.success
    /\ Len(ImportRequests) = 1
    /\ \E i \in 1..Len(out.replies) : out.replies[i].msg = "import_failed"

\* C28: when the range handler has sent its import request, its last reply
\* reports, for a success, the task id of the response and the number of
\* selected episodes, and for a failure the error message of the response as
\* it came; either way the handler ends the dialog and the session is as it
\* was before the step.
C28_ImportOutcomeSurfaced ==
    [][ (out'.handler = "handle_episode_range_input" /\ out'.requests # <<>>) =>
            LET last == out'.replies[Len(out'.replies)]
                resp == inp'.resp
            IN  /\ resp.success =>
                       last = [msg |-> "import_submitted",
                               taskId |-> resp.data.taskId,
                               count |-> Cardinality(out'.selected)]
                /\ ~resp.success =>
                       last = [msg |-> "import_failed", error |-> resp.error]
                /\ out'.ret = END
                /\ user_data'[out'.user] = user_data[out'.user]
      ]_vars

\* C28 witness: an import of two episodes succeeded and its task id and the
\* count 2 were reported
C28_Witness ==
    /\ ImportCompleted
    /\ inp.resp.success
    /\ Cardinality(out.selected) = 2
    /\ out.replies[Len(out.replies)].msg = "import_submitted"
    /\ out.replies[Len(out.replies)].taskId = inp.resp.data.taskId
    /\ out.replies[Len(out.replies)].count = 2

(***************************************************************************)
(* Properties of the sessions of different users.                          *)
(***************************************************************************)
\* what the handler named in update can return when it runs on the session ud
StepResults(update, ud) ==
    CASE update.handler = "process_search_media" ->
             {ProcessSearchMedia(ud, update.resp)}
      [] update.handler = "handle_get_episode_callback" ->
             {HandleGetEpisodeCallback(ud, update.payload, update.resp, send_fails) :
                 send_fails \in BOOLEAN}
      [] update.handler = "handle_import_callback" ->
             {HandleImportCallback(ud, update.payload, update.resp)}
      [] update.handler = "handle_episode_range_input" ->
             {HandleEpisodeRangeInput(ud, update.text, update.resp)}
      [] update.handler = "cancel" -> {Cancel(ud)}
      [] update.handler = "cancel_episode_input" -> {CancelEpisodeInput(ud)}

C30_CallDoesNotBlockOthers ==
    \A u, v \in DOMAIN user_data :
        (/\ u # v
         /\ inp.running.user = u
         /\ inp.waiting[v] # NoUpdate) => CanStart(v)

(***************************************************************************)
(* Properties of the retry controls.                                       *)
(***************************************************************************)
\* the result index the tapped control stands for: the one in the payload of
\* a first fetch, the one of the batch otherwise
OriginalResultIndex ==
    IF ActionOf(inp.payload) \in {"get_media_episode", "get_episodes"}
    THEN IntParse(DataIdOf(inp.payload)).val
    ELSE BatchMap(LastSession)[DataIdOf(inp.payload)].result_index

\* C32: every retry control the episode handler leaves behind carries the
\* original result index as its identifier.
C32_RetryCarriesResultIndex ==
    EpisodeTapped =>
        \A b \in ButtonsOfKind(out.markup, "retry") :
            ControlId(b) = IntToStr(OriginalResultIndex)

(***************************************************************************)
(* Properties of the loading placeholder.                                  *)
(***************************************************************************)
FirstFetchTapped == inp.handler = "handle_get_episode_callback"

\* the positions of the effects of kind op
EffectsAt(op) == {i \in 1..Len(out.effects) : out.effects[i].op = op}

\* the tap carried an integer result index and the session holds a search id
FetchableTap ==
    /\ IntParse(inp.data_id).ok
    /\ Get(user_data[inp.user], "search_id", "") # ""

\* C33 as stated: every FetchEpisodes request comes after the loading
\* placeholder has replaced the controls, a tap with an integer result index
\* and a search id shows the placeholder, and no request is issued without
\* a search id or an integer result index.
C33_LoadingBeforeFetch ==
    FirstFetchTapped =>
        /\ \A j \in EffectsAt("request") : \E i \in EffectsAt("edit_loading") : i < j
        /\ FetchableTap => EffectsAt("edit_loading") # {}
        /\ ~FetchableTap => EffectsAt("request") = {}

\* C33 amended: the placeholder is shown before the request whenever the
\* edit is accepted; a request without the placeholder is issued only when
\* the edit was rejected with BadRequest; at most one request is issued, for
\* the session's search id and the tapped result index, and none without a
\* search id or an integer result index.
C33_LoadingAttemptedBeforeFetch ==
    FirstFetchTapped =>
        /\ \A j \in EffectsAt("request") :
               \/ \E i \in EffectsAt("edit_loading") : i < j
               \/ inp.edit = "BadRequest"
        /\ \A i \in EffectsAt("edit_loading") : \E j \in EffectsAt("request") : i < j
        /\ (FetchableTap /\ inp.edit = "ok") =>
               EffectsAt("edit_loading") # {} /\ EffectsAt("request") # {}
        /\ \A j \in EffectsAt("request") :
               out.effects[j].request =
                   FetchRequest(user_data[inp.user].search_id,
                                IntParse(inp.data_id).val)
        /\ ~FetchableTap => EffectsAt("request") = {}

\* C33 witness: a first fetch whose placeholder was shown and whose request
\* followed
C33_Witness ==
    /\ FirstFetchTapped
    /\ FetchableTap
    /\ EffectsAt("edit_loading") = {1}
    /\ EffectsAt("request") = {2}

(***************************************************************************)
(* Properties of two results that share a short id.                        *)
(***************************************************************************)
\* the descriptors of the episodes of a batch
BatchDescriptors(batch) ==
    {Descriptor(batch.cached_episodes[i]) : i \in 1..Len(batch.cached_episodes)}

\* C34: a successful first fetch for a pair (s, i) whose short id already
\* holds the batch of another pair is answered like any other first fetch and
\* puts the batch of (s, i) in its place; a page switch or a range import
\* resolves its short id to whatever batch is stored under it at that moment,
\* so controls rendered for the earlier pair show and import the later one.
C34_CollisionAliases ==
    [][ /\ (/\ inp'.handler = "handle_get_episode_callback"
            /\ ActionOf(inp'.payload) = "get_media_episode"
            /\ inp'.resp.success
            /\ \E j \in 1..Len(inp'.resp.data) : HasAllKeys(inp'.resp.data[j])) =>
               LET s == user_data[inp'.user].search_id
                   i == IntParse(DataIdOf(inp'.payload)).val
                   k == Md5Hex8(s, i)
                   m == BatchMap(user_data[inp'.user])
                   m2 == BatchMap(user_data'[inp'.user])
               IN  (k \in DOMAIN m /\ <<m[k].search_id, m[k].result_index>> # <<s, i>>) =>
                       /\ m2[k].search_id = s
                       /\ m2[k].result_index = i
                       /\ m2[k].cached_episodes = SelectSeq(inp'.resp.data, HasAllKeys)
                       /\ DOMAIN m2 = DOMAIN m
                       /\ out'.ret = END
                       /\ out'.replies[1].msg \in {"episode_page", "alert_failed"}
        /\ (/\ inp'.handler = "handle_get_episode_callback"
            /\ ActionOf(inp'.payload) = "switch_episode_page"
            /\ out'.replies[1].msg = "episode_page") =>
               LET batch == BatchMap(user_data[inp'.user])[DataIdOf(inp'.payload)]
               IN  /\ out'.replies[1].total = Len(batch.cached_episodes)
                   /\ \A n \in 1..Len(out'.replies[1].lines) :
                          \E d \in BatchDescriptors(batch) :
                              /\ d.episodeIndex = out'.replies[1].lines[n].episodeIndex
                              /\ d.title = out'.replies[1].lines[n].title
                              /\ d.provider = out'.replies[1].lines[n].provider
                   /\ \A b \in ButtonsOfKind(out'.markup, "import_all") :
                          b.callback_data.result_index = batch.result_index
        /\ (inp'.handler = "handle_episode_range_input" /\ out'.requests # <<>>) =>
               LET batch == CurrentBatch(user_data[inp'.user])
               IN  /\ out'.requests[1].searchId = batch.search_id
                   /\ out'.requests[1].result_index = batch.result_index
                   /\ Range(out'.requests[1].episodes) \subseteq BatchDescriptors(batch)
      ]_vars

\* C34 witness: after the second search, a page control carrying the short id
\* that result 0 of the first search has shows the batch of result 1 of the
\* second search
C34_Witness ==
    /\ PageRendered
    /\ ActionOf(inp.payload) = "switch_episode_page"
    /\ DataIdOf(inp.payload) = Md5Hex8(SearchIdSeq[1], 0)
    /\ RenderedBatch.search_id = SearchIdSeq[2]
    /\ RenderedBatch.result_index = 1

C36_BatchMapWellFormed ==
    \A u \in DOMAIN user_data : \A k \in DOMAIN BatchMap(user_data[u]) :
        LET batch == BatchMap(user_data[u])[k]
        IN  /\ k = Md5Hex8(batch.search_id, batch.result_index)
            /\ batch.cached_episodes # <<>>
            /\ batch.total_episodes = Len(batch.cached_episodes)

\* C36 witness: two batches are cached, one of them filtered from a response
\* that held an episode without a title
C36_Witness ==
    /\ FetchSucceeded
    /\ PageRendered
    /\ Cardinality(DOMAIN BatchMap(LastSession)) = 2
    /\ \E k \in DOMAIN BatchMap(LastSession) :
           BatchMap(LastSession)[k].cached_episodes = <<E1, E1b, E2>>

(***************************************************************************)
(* Properties of episodes that share an episodeIndex.                      *)
(***************************************************************************)
\* the position of the last episode of the list that has episodeIndex x
LastPosition(full_episodes, x) ==
    CHOOSE i \in 1..Len(full_episodes) :
        /\ full_episodes[i].episodeIndex = x
        /\ \A j \in (i + 1)..Len(full_episodes) : full_episodes[j].episodeIndex # x

\* C37: a range import submits as many descriptors as indices were selected,
\* one for each selected index, and the descriptor for an index is that of
\* the last episode of the cached list with that index; an earlier episode
\* with the same index is never submitted.
C37_DuplicateIndexLastWins ==
    (RangeHandled /\ out.requests # <<>>) =>
        LET full_episodes == CurrentBatch(LastSession).cached_episodes
            sent == out.requests[1].episodes
        IN  /\ Len(sent) = Cardinality(out.selected)
            /\ \A x \in out.selected :
                   Cardinality({j \in 1..Len(sent) : sent[j].episodeIndex = x}) = 1
            /\ \A j \in 1..Len(sent) :
                   /\ sent[j].episodeIndex \in out.selected
                   /\ sent[j] = Descriptor(full_episodes[
                                    LastPosition(full_episodes, sent[j].episodeIndex)])
                   /\ \A i \in 1..Len(full_episodes) :
                          (/\ full_episodes[i].episodeIndex = sent[j].episodeIndex
                           /\ i # LastPosition(full_episodes, sent[j].episodeIndex)) =>
                              sent[j].episodeId # full_episodes[i].episodeId

\* C37 witness: index 1, which two cached episodes have, was selected and the
\* second of them was submitted
C37_Witness ==
    /\ RangeHandled
    /\ out.requests # <<>>
    /\ CurrentBatch(LastSession).cached_episodes = <<E1, E1b, E2>>
    /\ out.selected = {1, 2}
    /\ out.requests[1].episodes = <<Descriptor(E1b), Descriptor(E2)>>

(***************************************************************************)
(* Properties of the start of the URL flow.                                *)
(***************************************************************************)
UrlFlowKeys == {"current_state", "import_url", "page_title"}

DialogStateAfter(ret) ==
    IF ret = "raise AttributeError" THEN EPISODE_INPUT ELSE ret

\* the id the request would carry: sourceId, or id when sourceId is falsy
SourceIdOf(ud) ==
    LET source == Get(ud, "selected_source", EmptyDict)
    IN  IF Get(source, "sourceId", 0) # 0 THEN source.sourceId
        ELSE Get(source, "id", 0)

\* C39: an episode-number message issues at most one request, to
\* /import/url; when the request succeeds and its outcome is reported the
\* store is emptied and the dialog ends; when the number is no integer or
\* below 1, or the URL or the source id is missing, no request is issued
\* and, as when the request fails or the report raises, the dialog stays in
\* EPISODE_INPUT with the store as it was.
C39_EpisodeInputOutcome ==
    [][ inp'.handler = "handle_episode_input" =>
            LET ud == user_data[inp'.user]
                ud2 == user_data'[inp'.user]
                idx == IntParse(inp'.text)
                rejected == \/ ~idx.ok
                            \/ idx.val < 1
                            \/ Get(ud, "import_url", "") = ""
                            \/ SourceIdOf(ud) = 0
            IN  /\ Len(out'.requests) <= 1
                /\ \A i \in 1..Len(out'.requests) :
                       /\ out'.requests[i].endpoint = "/import/url"
                       /\ out'.requests[i].episode_index = idx.val
                       /\ out'.requests[i].sourceId = SourceIdOf(ud)
                       /\ out'.requests[i].url = ud.import_url
                /\ rejected => out'.requests = <<>>
                /\ ~rejected => Len(out'.requests) = 1
                /\ IF ~rejected /\ inp'.resp.success /\ ~inp'.payload.send_fails
                   THEN ud2 = EmptyDict /\ out'.ret = END
                   ELSE ud2 = ud /\ DialogStateAfter(out'.ret) = EPISODE_INPUT
      ]_vars

\* C39 witness: the import of episode 12 was submitted, and the store is
\* empty
C39_Witness ==
    /\ inp.handler = "handle_episode_input"
    /\ inp.text = <<"1", "2">>
    /\ out.requests # <<>>
    /\ out.requests[1].episode_index = 12
    /\ out.ret = END
    /\ user_data[inp.user] = EmptyDict

(***************************************************************************)
(* Properties of the library cache.                                        *)
(***************************************************************************)
\* C31: a reader served after the cache has expired and the refresh has
\* failed receives the previous snapshot.
C31_FailedRefreshServesPrevious ==
    (/\ out.refreshed
     /\ ~out.previous.is_none
     /\ library_cache.data = out.previous
     /\ library_cache.timestamp + LibraryTtl <= inp.now)
      => out.ret = out.previous.items

\* C31, the other half: a reader whose call is due while a refresh is
\* outstanding can be served
C31_RefreshDoesNotBlockReaders ==
    \A u \in IsoUsers : (u \in inp.due /\ ~LibraryLoopFree) => CanRead(u)

(***************************************************************************)
(* Properties of the identifier of the automatic import.                   *)
(***************************************************************************)
\* the identifiers the input yields: the id parsed from a link, the value
\* the parser extracted, the stripped text itself
IdsOfInput(text, result) ==
    {Strip(text)}
    \cup {result[k] : k \in DOMAIN result
                            \cap {"value", "tmdb_id", "imdb_id", "bgm_id",
                                  "douban_id", "slug"}}

\* C40: when import_auto_id_input has asked for the media type after a
\* non-empty input, import_auto_id is set and holds an identifier of that
\* input.
C40_AutoIdFromInput ==
    (/\ inp.handler = "import_auto_id_input"
     /\ Strip(inp.text) # <<>>
     /\ out.markup = MediaTypeKeyboard)
      => /\ Has(user_data[inp.user], "import_auto_id")
         /\ user_data[inp.user].import_auto_id
               \in IdsOfInput(inp.text, inp.payload.result)
====
